---- MODULE Spec2Model ----
(***************************************************************************)
(* State-machine model of node-dmx.                                        *)
(*                                                                         *)
(* Part 1: RdmnetClient (src/src/protocols/rdmnet/discovery.ts): socket    *)
(* lifecycle, connect()/disconnect(), the waiter table, the broker session *)
(* state machine and the reconnect timer.                                  *)
(*                                                                         *)
(* Execution model: Node.js runs one macrotask (an API call, a socket      *)
(* event, a timer callback) to completion and then drains every promise    *)
(* continuation it made runnable.  One action below is one macrotask       *)
(* together with the continuations it releases.  The only exception is     *)
(* the 'data' handler, whose packet loop is stepped one packet at a time   *)
(* (variable chunk) with everything else frozen; the continuations of the  *)
(* promises it resolves run when the loop ends.                            *)
(***************************************************************************)
EXTENDS Integers, Sequences, FiniteSets, TLC

\* ------------------------------------------------------------------ bounds
MaxSockets == 2      \* socket objects alive at the same time
MaxSeq == 4          \* RDMnet sequence numbers allocated in one run
MaxWaiters == 2      \* length of the waiter table
MaxSessions == 1     \* startBrokerSession calls in progress at once
MaxCallers == 2      \* user connect() calls in progress at once
MaxAttempts == 2     \* consecutive automatic reconnect attempts
MaxChunk == 2        \* packets in one received chunk
MaxTx == 2           \* rdmTransaction calls in progress at once
MaxStream == 50      \* bytes held in the reassembly buffer
MaxUniverses == 2    \* universe ids a DMXController is asked for
MaxFlushes == 1      \* DMXController.flush calls in progress at once
MaxSent == 3         \* sendRaw calls made by one flush call
MaxObjects == 3      \* senders one DMXController creates
MaxUid == 3          \* the UID range of RDM discovery is 0..MaxUid
MaxResponses == 2    \* frames a transport returns for one probe
MaxPending == 1      \* socket.send callbacks one Sender is waiting for

\* --------------------------------------------------------------- constants
Limb == 65536         \* an unsigned 32-bit value is <<high, low>> 16-bit limbs
NoNum == -1          \* null for numeric fields
NoRole == "none"     \* null for role fields

Disconnected == "disconnected"
TcpConnected == "tcp_connected"
Connecting == "broker_connecting"
Connected == "broker_connected"
Binding == "broker_binding"
Bound == "broker_bound"
ErrorState == "broker_error"
BrokerSessionState ==
    {Disconnected, TcpConnected, Connecting, Connected, Binding, Bound, ErrorState}

Controller == "Controller"
Device == "Device"
BrokerClientRole == {Controller, Device}   \* Monitor is treated like Device

StatusOk == 0
StatusRejected == 1
StatusInvalidScope == 2
StatusUnauthorized == 3
StatusAlreadyConnected == 4
StatusInvalidRequest == 5
BrokerStatusCode == 0..5

DefaultEndpointId == 1
DefaultReconnectDelayMs == 500
DefaultReconnectMaxDelayMs == 10000
DefaultMaxBufferBytes == 1048576
EndpointIds == {1, 2}
ClientIds == {98, 99}
ProfileIds == {256, 512}
Tags == {1, 2}

SocketIds == 1..MaxSockets
SessionIds == 1..MaxSessions
CallerIds == 1..MaxCallers
WaiterIds == 1..(MaxWaiters + 1)
TxIds == 1..MaxTx

VARIABLES
    cfg,                     \* RdmnetClientOptions, fixed at construction
    socket,                  \* this.socket (0 = null)
    sockets,                 \* the socket objects the client created
    connectPromise,          \* this.connectPromise (0 = null, else its socket)
    manualClose,
    reconnectAttempts,
    reconnectTimer,          \* TRUE = a reconnect timeout is armed
    heartbeatTimer,          \* TRUE = the heartbeat interval is armed
    waiters,                 \* this.waiters
    waiterTimers,            \* ids of the waiters whose timeout is armed
    rdmnetSequence,
    brokerState,
    brokerClientId,
    brokerNegotiatedRole,
    brokerNegotiatedProfile,
    endpointCapabilities,
    sessions,                \* position of each startBrokerSession call
    callers,                 \* position of each user connect() call
    reconnectAwait,          \* the reconnect timer's connect() is pending
    stopWrite,               \* socket a stopBrokerSession write waits on
    chunk,                   \* data handler position inside a chunk
    streamBuffer,            \* this.streamBuffer, a sequence of bytes
    transactions,            \* position of each rdmTransaction call
    advertWrite,             \* sendEndpointAdvertisement awaiting its write
    heartbeatWrites,         \* sockets a heartbeat write is queued on
    options,                 \* ControllerOptions of the DMXController
    universes,               \* DMXController.universes, in insertion order
    flushes,                 \* position of each DMXController.flush call
    objects,                 \* senders the controller has created so far
    discovery,               \* one discoverDevices call and its transport
    artnet,                  \* ArtDmxOptions, the packet built, what was parsed
    sender,                  \* one sACN Sender and the buffers it was given
    trace                    \* what the last action emitted, sent and settled

vars == <<cfg, socket, sockets, connectPromise, manualClose, reconnectAttempts,
          reconnectTimer, heartbeatTimer, waiters, waiterTimers, rdmnetSequence,
          brokerState, brokerClientId, brokerNegotiatedRole,
          brokerNegotiatedProfile, endpointCapabilities, sessions, callers,
          reconnectAwait, stopWrite, chunk, streamBuffer, transactions,
          advertWrite, heartbeatWrites, options, universes, flushes, objects,
          discovery, artnet, sender, trace>>

\* ----------------------------------------------------------------- helpers
RECURSIVE SeqToSet(_)
SeqToSet(s) == IF s = <<>> THEN {} ELSE {Head(s)} \cup SeqToSet(Tail(s))

RECURSIVE SortSet(_)
SortSet(S) ==
    IF S = {} THEN <<>>
    ELSE LET m == CHOOSE x \in S : \A y \in S : x <= y
         IN <<m>> \o SortSet(S \ {m})

\* A normalisation that stores the list as it was given.
KeepProfiles(profiles) == profiles

\* Array.from(new Set(profiles.map(p => p & 0xffff))).sort((a, b) => a - b)
NormalizeProfiles(profiles) ==
    SortSet({profiles[k] % 65536 : k \in 1..Len(profiles)})

NoCap == [role |-> NoRole, profiles |-> <<>>, source |-> "absent"]

\* No sendEndpointAdvertisement call awaits its write.
NoAdvert == [sock |-> 0, endpointId |-> 0, role |-> NoRole, profiles |-> <<>>]

\* The program state as one record, so that handlers compose as functions.
World ==
    [socket |-> socket, sockets |-> sockets, connectPromise |-> connectPromise,
     manualClose |-> manualClose, reconnectAttempts |-> reconnectAttempts,
     reconnectTimer |-> reconnectTimer, heartbeatTimer |-> heartbeatTimer,
     waiters |-> waiters, waiterTimers |-> waiterTimers,
     rdmnetSequence |-> rdmnetSequence, brokerState |-> brokerState,
     brokerClientId |-> brokerClientId,
     brokerNegotiatedRole |-> brokerNegotiatedRole,
     brokerNegotiatedProfile |-> brokerNegotiatedProfile,
     endpointCapabilities |-> endpointCapabilities, sessions |-> sessions,
     callers |-> callers, reconnectAwait |-> reconnectAwait,
     stopWrite |-> stopWrite, chunk |-> chunk, streamBuffer |-> streamBuffer,
     transactions |-> transactions, advertWrite |-> advertWrite,
     heartbeatWrites |-> heartbeatWrites, trace |-> <<>>]

Commit(w) ==
    /\ socket' = w.socket
    /\ sockets' = w.sockets
    /\ connectPromise' = w.connectPromise
    /\ manualClose' = w.manualClose
    /\ reconnectAttempts' = w.reconnectAttempts
    /\ reconnectTimer' = w.reconnectTimer
    /\ heartbeatTimer' = w.heartbeatTimer
    /\ waiters' = w.waiters
    /\ waiterTimers' = w.waiterTimers
    /\ rdmnetSequence' = w.rdmnetSequence
    /\ brokerState' = w.brokerState
    /\ brokerClientId' = w.brokerClientId
    /\ brokerNegotiatedRole' = w.brokerNegotiatedRole
    /\ brokerNegotiatedProfile' = w.brokerNegotiatedProfile
    /\ endpointCapabilities' = w.endpointCapabilities
    /\ sessions' = w.sessions
    /\ callers' = w.callers
    /\ reconnectAwait' = w.reconnectAwait
    /\ stopWrite' = w.stopWrite
    /\ chunk' = w.chunk
    /\ streamBuffer' = w.streamBuffer
    /\ transactions' = w.transactions
    /\ advertWrite' = w.advertWrite
    /\ heartbeatWrites' = w.heartbeatWrites
    /\ trace' = w.trace
    /\ UNCHANGED <<cfg, options, universes, flushes, objects, discovery, artnet,
                   sender>>

Emit(w, e) == [w EXCEPT !.trace = Append(@, e)]

\* ------------------------------------------------------ RdmnetClient parts
isConnected(w) ==
    /\ w.socket # 0
    /\ w.sockets[w.socket].st \in {"connecting", "open"}

setBrokerState(w, next) ==
    IF next = w.brokerState THEN w
    ELSE Emit([w EXCEPT !.brokerState = next], <<"brokerState", next>>)

U32(n) == <<n \div Limb, n % Limb>>

\* The increment alone, without the replacement of 0.
nextRdmnetSequenceKeepsZero(n) ==
    IF n[2] = Limb - 1 THEN <<(n[1] + 1) % Limb, 0>> ELSE <<n[1], n[2] + 1>>

\* (this.rdmnetSequence + 1) >>> 0, then 0 is replaced by 1.
nextRdmnetSequence(n) ==
    LET inc == IF n[2] = Limb - 1 THEN <<(n[1] + 1) % Limb, 0>>
               ELSE <<n[1], n[2] + 1>>
    IN IF inc = U32(0) THEN U32(1) ELSE inc

\* The values the counter is followed through: from its initial value 0,
\* from below the carry of the low 16 bits, and from below 2^32.
SequenceStarts == {U32(0), <<0, Limb - 3>>, <<Limb - 1, Limb - 3>>}

RECURSIVE SequencesFrom(_, _)
SequencesFrom(n, k) ==
    IF k = 0 THEN {n} ELSE {n} \cup SequencesFrom(nextRdmnetSequence(n), k - 1)

stopHeartbeat(w) == [w EXCEPT !.heartbeatTimer = FALSE]

startHeartbeat(w) ==
    IF cfg.heartbeatIntervalMs <= 0 THEN stopHeartbeat(w)
    ELSE [w EXCEPT !.heartbeatTimer = TRUE]

stopReconnectTimer(w) == [w EXCEPT !.reconnectTimer = FALSE]

Min(a, b) == IF a <= b THEN a ELSE b

\* Line 1222, the delay of retry number n.
reconnectDelayMs(n) ==
    Min(cfg.reconnectDelayMs * (2 ^ (n - 1)), cfg.reconnectMaxDelayMs)

\* A delay that is not capped by reconnectMaxDelayMs.
reconnectDelayUncapped(n) == cfg.reconnectDelayMs * (2 ^ (n - 1))

\* scheduleReconnect (lines 1219-1231) up to setTimeout; the callback is the
\* action ReconnectFire.  The event carries the delay the timer is armed with.
scheduleReconnectWith(w, delayMs) ==
    IF w.reconnectTimer THEN w
    ELSE LET n == w.reconnectAttempts + 1
         IN Emit([w EXCEPT !.reconnectAttempts = n, !.reconnectTimer = TRUE],
                 <<"reconnecting", n, delayMs>>)

scheduleReconnectUncapped(w) ==
    scheduleReconnectWith(w, reconnectDelayUncapped(w.reconnectAttempts + 1))

scheduleReconnect(w) ==
    scheduleReconnectWith(w, reconnectDelayMs(w.reconnectAttempts + 1))

\* A reset that leaves client id, negotiated role/profile and cache as is.
KeepBrokerFields(w) == w

ResetBrokerFields(w) ==
    [w EXCEPT !.brokerClientId = NoNum,
              !.brokerNegotiatedRole = NoRole,
              !.brokerNegotiatedProfile = NoNum,
              !.endpointCapabilities = [e \in EndpointIds |-> NoCap]]

\* An updateEndpointCapabilities that records the role but no profile.
updateEndpointCapabilitiesNoProfiles(w, endpointId, role, profiles, source) ==
    [w EXCEPT !.endpointCapabilities[endpointId] =
                  [role |-> role, profiles |-> <<>>, source |-> source]]

\* The trace records the arguments of the call.
updateEndpointCapabilities(w0, endpointId, role, profiles, source) ==
    LET w == Emit(w0, <<"updateEndpointCapabilities", endpointId, role,
                        profiles, source>>)
        prev == w.endpointCapabilities[endpointId]
        next == [role |-> role, profiles |-> NormalizeProfiles(profiles),
                 source |-> source]
        changed == \/ prev = NoCap
                   \/ prev.role # next.role
                   \/ prev.source # next.source
                   \/ Len(prev.profiles) # Len(next.profiles)
                   \/ \E i \in 1..Len(prev.profiles) :
                          prev.profiles[i] # next.profiles[i]
        w1 == [w EXCEPT !.endpointCapabilities[endpointId] = next]
    IN IF changed THEN Emit(w1, <<"endpointCapabilitiesUpdated", endpointId>>)
       ELSE w1

BrokerStatusErrorCode(status) ==
    CASE status = StatusOk -> "PROTOCOL_ERROR"
      [] status = StatusRejected -> "BROKER_REJECTED"
      [] status = StatusInvalidScope -> "BROKER_INVALID_SCOPE"
      [] status = StatusUnauthorized -> "BROKER_UNAUTHORIZED"
      [] status = StatusAlreadyConnected -> "BROKER_ALREADY_CONNECTED"
      [] status = StatusInvalidRequest -> "BROKER_INVALID_REQUEST"
      [] OTHER -> "PROTOCOL_ERROR"

\* A mapping that reports every status as a rejection.
mapBrokerStatusToErrorAlwaysRejected(status) ==
    [domain |-> "broker", code |-> "BROKER_REJECTED", statusCode |-> status]

mapBrokerStatusToError(status) ==
    [domain |-> "broker", code |-> BrokerStatusErrorCode(status),
     statusCode |-> status]

PlainError(msg) == [domain |-> "none", code |-> msg, statusCode |-> NoNum]
RdmnetError(domain, code) ==
    [domain |-> domain, code |-> code, statusCode |-> NoNum]

\* ------------------------------------------------------------ inbound data
\* A decoded root-layer packet.  Broker payloads are what decodeBrokerMessage
\* returns: a ClientBindReply always carries a role and a 16-bit profile.
Packet(vector, sequence, statusCode, clientId, endpointId, role, profile, tag) ==
    [vector |-> vector, sequence |-> sequence, statusCode |-> statusCode,
     clientId |-> clientId, endpointId |-> endpointId,
     negotiatedRole |-> role, negotiatedProfile |-> profile, tag |-> tag]

NoPacket == Packet("none", U32(0), 0, NoNum, 0, NoRole, NoNum, 0)

ConnectReplies ==
    {Packet("ConnectReply", U32(q), st, c, 0, NoRole, NoNum, 0) :
        q \in 1..MaxSeq, st \in BrokerStatusCode, c \in ClientIds}

BindReplies ==
    {Packet("ClientBindReply", U32(q), StatusOk, NoNum, DefaultEndpointId, r, pf, 0) :
        q \in 1..MaxSeq, r \in BrokerClientRole, pf \in ProfileIds}
    \cup
    {Packet("ClientBindReply", U32(q), st, NoNum, e, Controller, 256, 0) :
        q \in 1..MaxSeq, st \in {StatusOk, StatusRejected}, e \in EndpointIds}

DisconnectPacket == Packet("Disconnect", U32(0), 0, NoNum, 0, NoRole, NoNum, 0)

OtherPackets ==
    {Packet("Other", U32(0), 0, NoNum, 0, NoRole, NoNum, t) : t \in Tags}

\* Root-layer packets of the four decoded vectors whose payload the decoder
\* rejects (decodeBrokerMessage, decodeRptMessage, decodeEptMessage,
\* decodeLlrpMessage throw a RangeError).
MalformedVectors ==
    {"MalformedBroker", "MalformedRpt", "MalformedEpt", "MalformedLlrp"}

MalformedPackets ==
    {Packet(v, U32(0), 0, NoNum, 0, NoRole, NoNum, 0) : v \in MalformedVectors}

\* RPT payloads: an RdmResponse with its sequence and its embedded response
\* (tag), and a Status with a sequence.
RdmResponses ==
    {Packet("RdmResponse", U32(q), 0, NoNum, 0, NoRole, NoNum, t) :
        q \in 1..MaxSeq, t \in Tags}

\* An RPT EndpointAdvertisement with its endpoint, role and profile list.
Advertisement(endpointId, role, profiles) ==
    [vector |-> "EndpointAdvertisement", sequence |-> U32(0), statusCode |-> 0,
     clientId |-> NoNum, endpointId |-> endpointId, negotiatedRole |-> role,
     negotiatedProfile |-> NoNum, tag |-> 0, profiles |-> profiles]

RptStatuses ==
    {Packet("RptStatus", U32(q), 0, NoNum, 0, NoRole, NoNum, 0) : q \in 1..MaxSeq}

\* Profile lists as callers and peers write them: unsorted, with a
\* repetition, with a value above 16 bits (65792 = 65536 + 256).
ProfileLists == {<<>>, <<256>>, <<512, 256, 512>>, <<65792, 256>>}

Advertisements ==
    {Advertisement(e, r, pl) :
        e \in EndpointIds, r \in BrokerClientRole,
        pl \in {l \in ProfileLists : \A k \in 1..Len(l) : l[k] < Limb}}

Packets ==
    ConnectReplies \cup BindReplies \cup {DisconnectPacket} \cup OtherPackets
        \cup MalformedPackets \cup RdmResponses \cup RptStatuses
        \cup Advertisements

\* RdmnetRootVector of a packet.
RootBroker == 1
RootRpt == 2
RootEpt == 3
RootLlrp == 4
RootUnassigned == 9

RootVector(packet) ==
    CASE packet.vector \in {"ConnectReply", "ClientBindReply", "Disconnect",
                            "MalformedBroker"} -> RootBroker
      [] packet.vector \in {"RdmResponse", "RptStatus", "EndpointAdvertisement",
                            "MalformedRpt"} -> RootRpt
      [] packet.vector = "MalformedEpt" -> RootEpt
      [] packet.vector = "MalformedLlrp" -> RootLlrp
      [] OTHER -> RootUnassigned

\* ------------------------------------------------------------ waiter table
NoError == PlainError("none")
NoReply == [st |-> "none", pkt |-> NoPacket, err |-> NoError]

\* An rdmTransaction call that is not in progress.
IdleTx == [pc |-> "idle", seq |-> U32(0), waitId |-> 0, wsock |-> 0,
           reply |-> NoReply]

\* A startBrokerSession call that is not in progress.
IdleSession == [pc |-> "idle", autoBind |-> TRUE, strict |-> TRUE,
                endpointRole |-> Controller, profiles |-> <<>>, waitId |-> 0,
                wsock |-> 0, reply |-> NoReply]

Waiter(id, kind, owner, seq, endpointId, tag) ==
    [id |-> id, kind |-> kind, owner |-> owner, seq |-> seq,
     endpointId |-> endpointId, tag |-> tag]

\* The matchers of startBrokerSession (lines 781-782, 809-812) and of
\* rdmTransaction (lines 952-960) and, for user waiters, a predicate
\* selecting the non-broker packets of one tag.
MatchesWith(wt, p, bySequence) ==
    CASE wt.kind = "connect" ->
            p.vector = "ConnectReply" /\ p.sequence = wt.seq
      [] wt.kind = "bind" ->
            /\ p.vector = "ClientBindReply"
            /\ p.sequence = wt.seq
            /\ p.endpointId = wt.endpointId
      [] wt.kind = "rdm" ->
            /\ p.vector = "RdmResponse"
            /\ bySequence => p.sequence = wt.seq
      [] OTHER -> p.vector = "Other" /\ p.tag = wt.tag

\* An rdmTransaction matcher that accepts any RdmResponse.
MatchesAnyRdmResponse(wt, p) == MatchesWith(wt, p, FALSE)

Matches(wt, p) == MatchesWith(wt, p, TRUE)

WaiterIdsOf(ws) == {ws[k].id : k \in 1..Len(ws)}

UsedWaiterIds(w) == WaiterIdsOf(w.waiters) \cup w.waiterTimers

FreshWaiterId(w) ==
    CHOOSE id \in WaiterIds \ UsedWaiterIds(w) :
        \A o \in WaiterIds \ UsedWaiterIds(w) : id <= o

\* waitForMessage: arm the timeout and push the waiter.
waitForMessage(w, wt) ==
    [w EXCEPT !.waiters = Append(@, wt),
              !.waiterTimers = @ \cup {wt.id}]

\* Settling a waiter's promise: an event, plus the reply slot of the
\* startBrokerSession or rdmTransaction call that awaits it.
SettleWaiter(w, wt, reply) ==
    LET w1 == Emit(w, IF reply.st = "ok" THEN <<"resolve", wt.id>>
                      ELSE <<"reject", wt.id, reply.err>>)
    IN IF wt.kind = "rdm"
       THEN IF /\ w1.transactions[wt.owner].waitId = wt.id
               /\ w1.transactions[wt.owner].reply.st = "none"
            THEN [w1 EXCEPT !.transactions[wt.owner].reply = reply]
            ELSE w1
       ELSE IF /\ wt.owner # 0
               /\ w1.sessions[wt.owner].waitId = wt.id
               /\ w1.sessions[wt.owner].reply.st = "none"
       THEN [w1 EXCEPT !.sessions[wt.owner].reply = reply]
       ELSE w1

RECURSIVE SettleEach(_, _, _, _)
SettleEach(w, ws, reply, clear) ==
    IF ws = <<>> THEN w
    ELSE LET wt == Head(ws)
             w1 == IF clear THEN [w EXCEPT !.waiterTimers = @ \ {wt.id}] ELSE w
         IN SettleEach(SettleWaiter(w1, wt, reply), Tail(ws), reply, clear)

resolveWaitersWith(w, packet, remove, clear) ==
    LET matches == SelectSeq(w.waiters, LAMBDA wt : Matches(wt, packet))
        w1 == IF remove
              THEN [w EXCEPT !.waiters =
                        SelectSeq(@, LAMBDA wt : ~Matches(wt, packet))]
              ELSE w
    IN IF matches = <<>> THEN w
       ELSE SettleEach(w1, matches,
                       [st |-> "ok", pkt |-> packet, err |-> NoError], clear)

\* A resolveWaiters that leaves the matched waiters in the table.
resolveWaitersKeepsMatched(w, packet) == resolveWaitersWith(w, packet, FALSE, TRUE)

resolveWaiters(w, packet) == resolveWaitersWith(w, packet, TRUE, TRUE)

rejectAllWaitersWith(w, err, clear) ==
    SettleEach([w EXCEPT !.waiters = <<>>], w.waiters,
               [st |-> "err", pkt |-> NoPacket, err |-> err], clear)

\* A rejectAllWaiters that forgets clearTimeout.
rejectAllWaitersLeavesTimers(w, err) == rejectAllWaitersWith(w, err, FALSE)

rejectAllWaiters(w, err) == rejectAllWaitersWith(w, err, TRUE)

\* The timeout callback of waitForMessage (lines 614-621).
waiterTimeoutWith(w, id, remove) ==
    LET hit == SelectSeq(w.waiters, LAMBDA wt : wt.id = id)
        w1 == [w EXCEPT !.waiters = IF remove
                                    THEN SelectSeq(@, LAMBDA wt : wt.id # id)
                                    ELSE @,
                        !.waiterTimers = @ \ {id}]
        err == RdmnetError("timeout", "RESPONSE_TIMEOUT")
        reply == [st |-> "err", pkt |-> NoPacket, err |-> err]
    IN IF hit = <<>> THEN Emit(w1, <<"reject", id, err>>)
       ELSE SettleWaiter(w1, hit[1], reply)

\* A timeout callback that rejects but leaves the waiter in the table.
waiterTimeoutKeepsWaiter(w, id) == waiterTimeoutWith(w, id, FALSE)

waiterTimeout(w, id) == waiterTimeoutWith(w, id, TRUE)

\* ------------------------------------------------------ startBrokerSession
SessionThrow(w, i, err) ==
    Emit([w EXCEPT !.sessions[i] = IdleSession], <<"sessionThrow", i, err>>)

SessionReturn(w, i) ==
    Emit([w EXCEPT !.sessions[i] = IdleSession], <<"sessionReturn", i>>)

\* sendBrokerMessage -> sendPacket -> sendRaw as awaited by a session.  A write
\* on an open socket is flushed and its callback runs before any other event;
\* a write on a socket that is still connecting is queued until it is ready.
SessionSend(w, i, what, seq, waitPc, writePc) ==
    IF w.socket = 0
    THEN SessionThrow(w, i, PlainError("RDMnet socket is not connected"))
    ELSE LET st == w.sockets[w.socket].st
             w1 == Emit(w, <<"write", what, seq>>)
         IN CASE st = "open" -> [w1 EXCEPT !.sessions[i].pc = waitPc]
              [] st = "connecting" ->
                    [w1 EXCEPT !.sessions[i].pc = writePc,
                               !.sessions[i].wsock = w.socket]
              [] OTHER -> SessionThrow(w, i, PlainError("write failed"))

\* Lines 760-790: after connect() has resolved.
SessionBegin(w, i) ==
    IF w.brokerState = Bound THEN SessionReturn(w, i)
    ELSE IF w.brokerState \notin {TcpConnected, ErrorState}
    THEN SessionThrow(w, i, PlainError("Cannot start broker session"))
    ELSE LET connectSeq == nextRdmnetSequence(w.rdmnetSequence)
             w1 == setBrokerState([w EXCEPT !.rdmnetSequence = connectSeq],
                                  Connecting)
             id == FreshWaiterId(w1)
             w2 == waitForMessage(
                       [w1 EXCEPT !.sessions[i].waitId = id,
                                  !.sessions[i].reply = NoReply],
                       Waiter(id, "connect", i, connectSeq, 0, 0))
         IN SessionSend(w2, i, "ConnectRequest", connectSeq,
                        "connWait", "connWrite")

\* Lines 791-821: after connectReplyPromise has settled.
SessionOnConnectReply(w0, i) ==
    LET r == w0.sessions[i].reply
        connectReply == r.pkt
        w == Emit(w0, <<"reply", i, connectReply>>)
    IN IF r.st = "err" THEN SessionThrow(w0, i, r.err)
       ELSE IF connectReply.statusCode # StatusOk
       THEN SessionThrow(setBrokerState(w, ErrorState), i,
                         mapBrokerStatusToError(connectReply.statusCode))
       ELSE LET w1 == setBrokerState(
                          [w EXCEPT !.brokerClientId = connectReply.clientId],
                          Connected)
            IN IF ~w1.sessions[i].autoBind THEN SessionReturn(w1, i)
               ELSE LET bindSeq == nextRdmnetSequence(w1.rdmnetSequence)
                        w2 == setBrokerState(
                                  [w1 EXCEPT !.rdmnetSequence = bindSeq],
                                  Binding)
                        id == FreshWaiterId(w2)
                        w3 == waitForMessage(
                                  [w2 EXCEPT !.sessions[i].waitId = id,
                                             !.sessions[i].reply = NoReply],
                                  Waiter(id, "bind", i, bindSeq,
                                         DefaultEndpointId, 0))
                    IN SessionSend(w3, i, "ClientBindRequest", bindSeq,
                                   "bindWait", "bindWrite")

\* A negotiation check that accepts whatever the broker negotiated.
NegotiationFailureNone(strictNegotiation, endpointRole, profiles, bindReply) ==
    "none"

\* The strictNegotiation block (lines 834-855): the code of the error it
\* throws, "none" when it throws nothing.
NegotiationFailure(strictNegotiation, endpointRole, profiles, bindReply) ==
    IF ~strictNegotiation THEN "none"
    ELSE IF bindReply.negotiatedRole # endpointRole
    THEN "NEGOTIATION_ROLE_MISMATCH"
    ELSE IF /\ Len(profiles) > 0
            /\ ~\E k \in 1..Len(profiles) :
                    profiles[k] = bindReply.negotiatedProfile
    THEN "NEGOTIATION_PROFILE_MISMATCH"
    ELSE "none"

\* Lines 822-867: after bindReplyPromise has settled.  endpointId is the
\* default endpoint (1).
SessionOnBindReply(w0, i) ==
    LET r == w0.sessions[i].reply
        bindReply == r.pkt
        w == Emit(w0, <<"reply", i, bindReply>>)
        failure == NegotiationFailure(w.sessions[i].strict,
                                      w.sessions[i].endpointRole,
                                      w.sessions[i].profiles, bindReply)
    IN IF r.st = "err" THEN SessionThrow(w0, i, r.err)
       ELSE IF bindReply.statusCode # StatusOk
       THEN SessionThrow(setBrokerState(w, ErrorState), i,
                         mapBrokerStatusToError(bindReply.statusCode))
       ELSE IF failure # "none"
       THEN SessionThrow(setBrokerState(w, ErrorState), i,
                         RdmnetError("negotiation", failure))
       ELSE LET w1 == [w EXCEPT
                          !.brokerNegotiatedRole = bindReply.negotiatedRole,
                          !.brokerNegotiatedProfile = bindReply.negotiatedProfile]
                w2 == updateEndpointCapabilities(
                          w1, DefaultEndpointId, w1.brokerNegotiatedRole,
                          IF w1.brokerNegotiatedProfile = NoNum
                          THEN w1.sessions[i].profiles
                          ELSE <<w1.brokerNegotiatedProfile>>,
                          "broker_negotiation")
            IN SessionReturn(setBrokerState(w2, Bound), i)

\* The promise continuations that the current macrotask made runnable.
RECURSIVE RunSessions(_, _)
RunSessions(w, i) ==
    IF i > MaxSessions THEN w
    ELSE LET s == w.sessions[i]
             w1 == IF s.pc = "connWait" /\ s.reply.st # "none"
                   THEN SessionOnConnectReply(w, i)
                   ELSE IF s.pc = "bindWait" /\ s.reply.st # "none"
                   THEN SessionOnBindReply(w, i)
                   ELSE w
         IN RunSessions(w1, i + 1)

\* ---------------------------------------------------------- rdmTransaction
TxThrow(w, t, err) ==
    Emit([w EXCEPT !.transactions[t] = IdleTx], <<"rdmThrow", t, err>>)

\* rdmTransaction (lines 946-975) up to its first await that suspends.
rdmTransaction(w, t) ==
    LET seq == nextRdmnetSequence(w.rdmnetSequence)
        id == FreshWaiterId(w)
        w1 == waitForMessage([w EXCEPT !.rdmnetSequence = seq],
                             Waiter(id, "rdm", t, seq, 0, 0))
        w2 == [w1 EXCEPT !.transactions[t] =
                  [IdleTx EXCEPT !.seq = seq, !.waitId = id]]
    IN IF w2.socket = 0
       THEN TxThrow(w2, t, PlainError("RDMnet socket is not connected"))
       ELSE LET st == w2.sockets[w2.socket].st
                w3 == Emit(w2, <<"write", "RdmCommand", seq>>)
            IN CASE st = "open" -> [w3 EXCEPT !.transactions[t].pc = "wait"]
                 [] st = "connecting" ->
                       [w3 EXCEPT !.transactions[t].pc = "write",
                                  !.transactions[t].wsock = w2.socket]
                 [] OTHER -> TxThrow(w3, t, PlainError("write failed"))

\* return responsePromise (line 974) with the .then of lines 960-966.
RECURSIVE RunTransactions(_, _)
RunTransactions(w, t) ==
    IF t > MaxTx THEN w
    ELSE LET x == w.transactions[t]
             w1 == IF x.pc # "wait" \/ x.reply.st = "none" THEN w
                   ELSE IF x.reply.st = "ok"
                   THEN Emit([w EXCEPT !.transactions[t] = IdleTx],
                             <<"rdmReturn", t, x.reply.pkt.tag>>)
                   ELSE TxThrow(w, t, x.reply.err)
         IN RunTransactions(w1, t + 1)

\* Completion of the rdmTransaction writes queued on socket s.
RECURSIVE FinishTxWrites(_, _, _, _)
FinishTxWrites(w, s, ok, t) ==
    IF t > MaxTx THEN w
    ELSE LET x == w.transactions[t]
             pending == x.pc = "write" /\ x.wsock = s
             w1 == IF ~pending THEN w
                   ELSE IF ~ok THEN TxThrow(w, t, PlainError("write failed"))
                   ELSE [w EXCEPT !.transactions[t].pc = "wait",
                                  !.transactions[t].wsock = 0]
         IN FinishTxWrites(w1, s, ok, t + 1)

RunMicrotasks(w) == RunTransactions(RunSessions(w, 1), 1)

\* ------------------------------------------------ sendEndpointAdvertisement
\* Lines 1004-1006, after the write of the advertisement has completed.
AdvertFinish(w, a) ==
    Emit(updateEndpointCapabilities(w, a.endpointId, a.role, a.profiles,
                                    "local_advertisement"),
         <<"advertReturn">>)

\* sendEndpointAdvertisement (lines 991-1007) up to the await of the write.
sendEndpointAdvertisement(w, endpointId, role, profiles) ==
    LET seq == nextRdmnetSequence(w.rdmnetSequence)
        w1 == [w EXCEPT !.rdmnetSequence = seq]
        a == [sock |-> w.socket, endpointId |-> endpointId, role |-> role,
              profiles |-> profiles]
    IN IF w.socket = 0 THEN Emit(w1, <<"advertThrow">>)
       ELSE LET st == w.sockets[w.socket].st
                w2 == Emit(w1, <<"write", "EndpointAdvertisement", seq>>)
            IN CASE st = "open" -> AdvertFinish(w2, a)
                 [] st = "connecting" -> [w2 EXCEPT !.advertWrite = a]
                 [] OTHER -> Emit(w2, <<"advertThrow">>)

\* Completion of the advertisement write queued on socket s.
FinishAdvertWrite(w, s, ok) ==
    IF w.advertWrite.sock # s THEN w
    ELSE LET w1 == [w EXCEPT !.advertWrite = NoAdvert]
         IN IF ok THEN AdvertFinish(w1, w.advertWrite)
            ELSE Emit(w1, <<"advertThrow">>)

\* Completion of the writes queued on socket s.
RECURSIVE FinishWrites(_, _, _, _)
FinishWrites(w, s, ok, i) ==
    IF i > MaxSessions THEN w
    ELSE LET ss == w.sessions[i]
             pending == ss.pc \in {"connWrite", "bindWrite"} /\ ss.wsock = s
             w1 == IF ~pending THEN w
                   ELSE IF ~ok THEN SessionThrow(w, i, PlainError("write failed"))
                   ELSE [w EXCEPT !.sessions[i].pc =
                            IF ss.pc = "connWrite" THEN "connWait" ELSE "bindWait",
                                  !.sessions[i].wsock = 0]
         IN FinishWrites(w1, s, ok, i + 1)

\* Lines 878-882: stopBrokerSession after its Disconnect has been written.
StopFinishWith(w, reset) ==
    LET w1 == setBrokerState(w, TcpConnected)
    IN IF reset THEN ResetBrokerFields(w1) ELSE w1

\* A stopBrokerSession that keeps the broker-bound fields.
StopFinishKeepsFields(w) == StopFinishWith(w, FALSE)

StopFinish(w) == StopFinishWith(w, TRUE)

FinishStopWrite(w, s, ok) ==
    IF w.stopWrite # s THEN w
    ELSE LET w1 == [w EXCEPT !.stopWrite = 0]
         IN IF ok THEN StopFinish(w1) ELSE Emit(w1, <<"stopThrow">>)

\* ----------------------------------------------------------------- connect
HasFreeSlot(w) == \E s \in SocketIds : w.sockets[s].st = "none"

FreeSlot(w) ==
    CHOOSE s \in SocketIds :
        /\ w.sockets[s].st = "none"
        /\ \A o \in SocketIds : w.sockets[o].st = "none" => s <= o

\* The .catch of the reconnect timer's connect() (lines 1226-1229).
ReconnectCatch(w) ==
    LET w1 == Emit(w, <<"error", "PROTOCOL_ERROR">>)
    IN IF ~w1.manualClose /\ cfg.autoReconnect THEN scheduleReconnect(w1)
       ELSE w1

\* connect() has settled for the caller who.
ConnectReturned(w, who, ok) ==
    CASE who[1] = "user" ->
            Emit([w EXCEPT !.callers[who[2]] = "idle"],
                 <<"connectReturn", who[2], ok>>)
      [] who[1] = "session" ->
            IF ok THEN SessionBegin(w, who[2])
            ELSE SessionThrow(w, who[2], PlainError("connect failed"))
      [] OTHER ->
            IF ok THEN [w EXCEPT !.reconnectAwait = FALSE]
            ELSE ReconnectCatch([w EXCEPT !.reconnectAwait = FALSE])

ConnectJoin(w, who) ==
    CASE who[1] = "user" -> [w EXCEPT !.callers[who[2]] = "waiting"]
      [] who[1] = "session" -> [w EXCEPT !.sessions[who[2]].pc = "awaitConnect"]
      [] OTHER -> [w EXCEPT !.reconnectAwait = TRUE]

\* connectInternal up to its await (lines 1036-1052): a new socket object.
connectInternal(w) ==
    LET s == FreeSlot(w)
    IN Emit([w EXCEPT !.socket = s,
                      !.streamBuffer = <<>>,
                      !.sockets[s] = [st |-> "connecting", hook |-> FALSE],
                      !.connectPromise = s],
            <<"open", s>>)

\* connect() (lines 513-524).
connectWith(w, who, connected) ==
    IF connected THEN ConnectReturned(w, who, TRUE)
    ELSE IF w.connectPromise # 0 THEN ConnectJoin(w, who)
    ELSE ConnectJoin(connectInternal([w EXCEPT !.manualClose = FALSE]), who)

connect(w, who) == connectWith(w, who, isConnected(w))

\* The attempt on socket s settles: the owner's finally clears connectPromise
\* and every caller awaiting it continues.
RECURSIVE SettleCallers(_, _, _)
SettleCallers(w, ok, c) ==
    IF c > MaxCallers THEN w
    ELSE SettleCallers(
            IF w.callers[c] = "waiting"
            THEN ConnectReturned(w, <<"user", c>>, ok) ELSE w,
            ok, c + 1)

RECURSIVE SettleSessions(_, _, _)
SettleSessions(w, ok, i) ==
    IF i > MaxSessions THEN w
    ELSE SettleSessions(
            IF w.sessions[i].pc = "awaitConnect"
            THEN ConnectReturned(w, <<"session", i>>, ok) ELSE w,
            ok, i + 1)

SettleConnect(w, s, ok) ==
    IF w.connectPromise # s THEN w
    ELSE LET w1 == SettleCallers([w EXCEPT !.connectPromise = 0], ok, 1)
             w2 == IF w1.reconnectAwait
                   THEN ConnectReturned(w1, <<"reconnect", 0>>, ok) ELSE w1
         IN SettleSessions(w2, ok, 1)

\* finalizeConnectedState after the hook (lines 1171-1175), then resolve.
FinalizeSuccess(w, s) ==
    LET w1 == [w EXCEPT !.reconnectAttempts = 0]
        w2 == startHeartbeat(stopReconnectTimer(w1))
        w3 == Emit(setBrokerState(w2, TcpConnected), <<"connect">>)
    IN SettleConnect(w3, s, TRUE)

\* The catch of onConnected (lines 1180-1183): socket.destroy(), reject.
FinalizeFail(w, s) ==
    LET w1 == IF w.sockets[s].st \in {"connecting", "open"}
              THEN [w EXCEPT !.sockets[s].st = "destroyed"] ELSE w
    IN SettleConnect(Emit(w1, <<"destroy", s>>), s, FALSE)

\* finalizeConnectedState up to the hook (lines 1147-1169).
finalizeConnectedState(w, s, authorized) ==
    LET w1 == IF cfg.transport = "tls"
              THEN Emit(w, <<"secureConnect", authorized>>) ELSE w
    IN IF cfg.transport = "tls" /\ cfg.requireTlsAuthorization /\ ~authorized
       THEN FinalizeFail(w1, s)
       ELSE IF cfg.postConnectAuth
       THEN [w1 EXCEPT !.sockets[s].hook = TRUE]
       ELSE FinalizeSuccess(w1, s)

\* The 'close' handler (lines 1132-1145).
onClose(w, s) ==
    LET w1 == [stopHeartbeat(w) EXCEPT !.socket = 0,
                  !.sockets[s].st = IF w.sockets[s].hook THEN "closed" ELSE "none"]
        w2 == rejectAllWaiters(w1, PlainError("RDMnet socket closed"))
        w3 == ResetBrokerFields(setBrokerState(w2, Disconnected))
        w4 == Emit(w3, <<"disconnect", s>>)
    IN IF ~w4.manualClose /\ cfg.autoReconnect THEN scheduleReconnect(w4)
       ELSE w4

\* handleBrokerMessage (lines 1270-1278).
handleBrokerMessage(w, message) ==
    IF message.vector = "Disconnect"
    THEN ResetBrokerFields(setBrokerState(w, TcpConnected))
    ELSE w

\* The domain and code of the RdmnetError the per-vector catch blocks of the
\* 'data' handler emit (lines 1073, 1083, 1093, 1115).
DecodeErrorOf(root) ==
    CASE root = RootBroker -> <<"error", "BROKER_DECODE_ERROR", "broker">>
      [] root = RootRpt -> <<"error", "RPT_DECODE_ERROR", "rpt">>
      [] root = RootEpt -> <<"error", "EPT_DECODE_ERROR", "ept">>
      [] root = RootLlrp -> <<"error", "LLRP_DECODE_ERROR", "llrp">>

TypedEventOf(root) ==
    CASE root = RootBroker -> "brokerMessage"
      [] root = RootRpt -> "rptMessage"
      [] root = RootEpt -> "eptMessage"
      [] root = RootLlrp -> "llrpMessage"

\* The body of the packet loop of the 'data' handler (lines 1066-1123) for
\* one packet: decode by root vector, then resolveWaiters and 'message'.
dispatchPacket(w, packet) ==
    LET root == RootVector(packet)
        bad == packet.vector \in MalformedVectors
        w1 == IF root = RootUnassigned THEN w
              ELSE IF bad THEN Emit(w, DecodeErrorOf(root))
              ELSE IF root = RootBroker
              THEN Emit(handleBrokerMessage(w, packet),
                        <<TypedEventOf(root), packet.vector>>)
              ELSE LET wa == IF packet.vector = "EndpointAdvertisement"
                             THEN updateEndpointCapabilities(
                                      w, packet.endpointId, packet.negotiatedRole,
                                      packet.profiles, "remote_advertisement")
                             ELSE w
                       w2 == Emit(wa, <<TypedEventOf(root), packet.vector>>)
                   IN IF packet.vector = "RdmResponse"
                      THEN Emit(w2, <<"rdmResponse", packet.sequence>>)
                      ELSE w2
    IN Emit(resolveWaiters(w1, packet),
            <<"message", packet.vector, packet.tag, packet.sequence>>)

\* ------------------------------------------------------ root-layer framing
\* Buffers are sequences of bytes; offsets are those of the source (from 0).
AcnPreambleSize == 16
AcnPostambleSize == 0
AcnPid == <<65, 83, 67, 45, 69, 49, 46, 49, 55, 0, 0, 0>>
FlagsMask == 28672
LengthMask == 4095
RootMinLength == 22
HeaderSize == 38

readUInt16BE(buffer, offset) == buffer[offset + 1] * 256 + buffer[offset + 2]

readUInt32BE(buffer, offset) ==
    <<readUInt16BE(buffer, offset), readUInt16BE(buffer, offset + 2)>>

writeUInt16BE(n) == <<n \div 256, n % 256>>

subarray(buffer, start, end) == SubSeq(buffer, start + 1, end)

\* rootFl & FLAGS_MASK and rootFl & LENGTH_MASK of a 16-bit value.
FlagsOf(rootFl) == ((rootFl \div 4096) % 8) * 4096
LengthOf(rootFl) == rootFl % 4096

Thrown == [ok |-> FALSE]

\* buildRdmnetPacket (part_007 lines 40-57); vector is a limb pair, cid has
\* 16 bytes.  withLengthFlags throws for a PDU longer than LENGTH_MASK.
buildRdmnetPacket(vector, data, cid) ==
    writeUInt16BE(AcnPreambleSize) \o writeUInt16BE(AcnPostambleSize) \o AcnPid
        \o writeUInt16BE(FlagsMask + RootMinLength + Len(data))
        \o writeUInt16BE(vector[1]) \o writeUInt16BE(vector[2])
        \o cid \o data

\* parseRdmnetPacket (part_007 lines 62-95).
parseRdmnetPacket(buffer) ==
    IF Len(buffer) < HeaderSize THEN Thrown
    ELSE IF \/ readUInt16BE(buffer, 0) # AcnPreambleSize
            \/ readUInt16BE(buffer, 2) # AcnPostambleSize
            \/ subarray(buffer, 4, 16) # AcnPid
    THEN Thrown
    ELSE LET rootFl == readUInt16BE(buffer, 16)
             totalLength == 16 + LengthOf(rootFl)
         IN IF \/ FlagsOf(rootFl) # FlagsMask
               \/ LengthOf(rootFl) < RootMinLength
               \/ Len(buffer) # totalLength
            THEN Thrown
            ELSE [ok |-> TRUE,
                  packet |-> [vector |-> readUInt32BE(buffer, 18),
                              cid |-> subarray(buffer, 22, 38),
                              data |-> subarray(buffer, 38, totalLength),
                              raw |-> subarray(buffer, 0, totalLength)]]

\* The while loop of extractRdmnetPackets (part_007 lines 107-126).
RECURSIVE ExtractFrom(_, _, _)
ExtractFrom(streamBuf, offset, packets) ==
    IF offset + HeaderSize > Len(streamBuf)
    THEN [ok |-> TRUE, packets |-> packets,
          remainder |-> subarray(streamBuf, offset, Len(streamBuf))]
    ELSE IF \/ readUInt16BE(streamBuf, offset) # AcnPreambleSize
            \/ readUInt16BE(streamBuf, offset + 2) # AcnPostambleSize
    THEN Thrown
    ELSE LET rootFl == readUInt16BE(streamBuf, offset + 16)
             totalLength == 16 + LengthOf(rootFl)
         IN IF FlagsOf(rootFl) # FlagsMask \/ LengthOf(rootFl) < RootMinLength
            THEN Thrown
            ELSE IF offset + totalLength > Len(streamBuf)
            THEN [ok |-> TRUE, packets |-> packets,
                  remainder |-> subarray(streamBuf, offset, Len(streamBuf))]
            ELSE LET parsed == parseRdmnetPacket(
                                subarray(streamBuf, offset, offset + totalLength))
                 IN IF ~parsed.ok THEN Thrown
                    ELSE ExtractFrom(streamBuf, offset + totalLength,
                                     Append(packets, parsed.packet))

\* A reframing that forgets the incomplete tail.
extractDropsRemainder(streamBuf) ==
    LET r == ExtractFrom(streamBuf, 0, <<>>)
    IN IF r.ok THEN [r EXCEPT !.remainder = <<>>] ELSE r

\* extractRdmnetPackets (part_007 lines 101-133).
extractRdmnetPackets(streamBuf) == ExtractFrom(streamBuf, 0, <<>>)

\* What the decoders make of a parsed packet.  A payload shorter than the
\* decoder's minimum (8 bytes, RPT 12) is malformed; a packet of another
\* root vector is not decoded, and its first data byte is what the user
\* matchers of the model look at.
MinPayload(root) == IF root = RootRpt THEN 12 ELSE 8

MalformedVectorOf(root) ==
    CASE root = RootBroker -> "MalformedBroker"
      [] root = RootRpt -> "MalformedRpt"
      [] root = RootEpt -> "MalformedEpt"
      [] root = RootLlrp -> "MalformedLlrp"

DecodedPacket(parsed) ==
    LET root == parsed.vector[2]
        decoded == parsed.vector[1] = 0 /\ root \in RootBroker..RootLlrp
    IN CASE decoded /\ Len(parsed.data) < MinPayload(root) ->
                Packet(MalformedVectorOf(root), U32(0), 0, NoNum, 0, NoRole, NoNum, 0)
         [] ~decoded ->
                Packet("Other", U32(0), 0, NoNum, 0, NoRole, NoNum,
                       IF parsed.data = <<>> THEN 0 ELSE parsed.data[1])

\* for (const packet of packets) { ... } (lines 1066-1123).
RECURSIVE dispatchLoopWith(_, _, _)
dispatchLoopWith(w, packets, stopAtMalformed) ==
    IF packets = <<>> THEN w
    ELSE LET packet == DecodedPacket(Head(packets))
         IN IF stopAtMalformed /\ packet.vector \in MalformedVectors
            THEN Emit(w, DecodeErrorOf(RootVector(packet)))
            ELSE dispatchLoopWith(dispatchPacket(w, packet), Tail(packets),
                                  stopAtMalformed)

\* A loop that a decode error ends.
dispatchLoopStopsAtMalformed(w, packets) == dispatchLoopWith(w, packets, TRUE)

dispatchLoop(w, packets) == dispatchLoopWith(w, packets, FALSE)

FramingError == <<"error", "STREAM_FRAMING_ERROR", "transport">>

\* The 'data' handler (lines 1054-1127) for one chunk of bytes.
onData(w, bytes) ==
    LET merged == w.streamBuffer \o bytes
        w1 == [w EXCEPT !.streamBuffer = merged]
        extracted == extractRdmnetPackets(merged)
    IN IF Len(merged) > cfg.maxBufferBytes THEN Emit(w1, FramingError)
       ELSE IF ~extracted.ok THEN Emit(w1, FramingError)
       ELSE dispatchLoop([w1 EXCEPT !.streamBuffer = extracted.remainder],
                         extracted.packets)

\* The component id of the packets of the model (16 bytes).
Cid == [i \in 1..16 |-> 7]

\* ----------------------------------------------------------------- heartbeat
\* The outcome of a heartbeat write (lines 1204-1208).
HeartbeatSent(w, ok) ==
    Emit(w, IF ok THEN <<"heartbeat">> ELSE <<"error", "PROTOCOL_ERROR">>)

\* The interval callback of startHeartbeat (lines 1193-1209).  inSession
\* tells whether the broker heartbeat is the one to send.
heartbeatTickWith(w, inSession) ==
    IF ~isConnected(w) THEN w
    ELSE LET seq == nextRdmnetSequence(w.rdmnetSequence)
             w1 == IF inSession
                   THEN Emit([w EXCEPT !.rdmnetSequence = seq],
                             <<"write", "Heartbeat", seq>>)
                   ELSE Emit(w, <<"write", "Root",
                                  buildRdmnetPacket(U32(cfg.heartbeatVector),
                                                    <<>>, Cid)>>)
         IN IF w.sockets[w.socket].st = "open" THEN HeartbeatSent(w1, TRUE)
            ELSE [w1 EXCEPT !.heartbeatWrites = @ \cup {w.socket}]

\* A callback that sends the root-layer packet in every broker state.
heartbeatTickAlwaysRoot(w) == heartbeatTickWith(w, FALSE)

heartbeatTick(w) ==
    heartbeatTickWith(w, w.brokerState \in {Connected, Bound})

\* Completion of the heartbeat write queued on socket s.
FinishHeartbeatWrite(w, s, ok) ==
    IF s \notin w.heartbeatWrites THEN w
    ELSE HeartbeatSent([w EXCEPT !.heartbeatWrites = @ \ {s}], ok)

\* disconnect() (lines 571-583).  socket.end() leaves the socket object alive
\* until its 'close' event; its handlers stay attached.
disconnectWith(w, stopTimer) ==
    LET w1 == [w EXCEPT !.manualClose = TRUE]
        w2 == stopHeartbeat(IF stopTimer THEN stopReconnectTimer(w1) ELSE w1)
        w3 == rejectAllWaiters(w2, PlainError("RDMnet client disconnected"))
        w4 == [w3 EXCEPT !.socket = 0]
    IN ResetBrokerFields(setBrokerState(w4, Disconnected))

\* A disconnect that leaves the reconnect timer armed.
disconnectLeavesReconnectTimer(w) == disconnectWith(w, FALSE)

disconnect(w) == disconnectWith(w, TRUE)

\* ----------------------------------------------------------------- actions
\* Bounds on the counters and tables, applied to the state an action yields.
Bounded(w) ==
    /\ \E start \in SequenceStarts : w.rdmnetSequence \in SequencesFrom(start, MaxSeq)
    /\ w.reconnectAttempts <= MaxAttempts
    /\ Len(w.waiters) <= MaxWaiters
    /\ Cardinality(UsedWaiterIds(w)) <= MaxWaiters
    /\ Len(w.streamBuffer) <= MaxStream

Step(w) == Bounded(w) /\ Commit(w)

\* A destroyed socket emits 'close' before any other event is dispatched;
\* only the continuation of a call that the failure rejected runs before it.
InGap == \E s \in SocketIds : sockets[s].st = "destroyed"

UserTurn ==
    /\ chunk.sock = 0
    /\ InGap => \E k \in 1..Len(trace) :
                    trace[k][1] \in {"connectReturn", "sessionThrow", "call"}

EventTurn == chunk.sock = 0 /\ ~InGap

MayOpen == isConnected(World) \/ connectPromise # 0 \/ HasFreeSlot(World)

Call(name) == Emit(World, <<"call", name>>)

Connect(c) ==
    /\ UserTurn
    /\ callers[c] = "idle"
    /\ MayOpen
    /\ Step(connect(Call("connect"), <<"user", c>>))

Disconnect ==
    /\ UserTurn
    /\ Step(RunMicrotasks(disconnect(Call("disconnect"))))

StartBrokerSession(i, autoBind, strict, endpointRole, profiles) ==
    /\ UserTurn
    /\ sessions[i].pc = "idle"
    /\ MayOpen
    /\ Len(waiters) < MaxWaiters
    /\ LET w == [Call("startBrokerSession") EXCEPT
                    !.sessions[i] = [IdleSession EXCEPT !.autoBind = autoBind,
                                                        !.strict = strict,
                                                        !.endpointRole = endpointRole,
                                                        !.profiles = profiles]]
       IN Step(connect(w, <<"session", i>>))

\* stopBrokerSession (lines 870-883).
StopBrokerSession ==
    /\ UserTurn
    /\ stopWrite = 0
    /\ LET w == Call("stopBrokerSession")
       IN IF ~isConnected(w) THEN Step(w)
          ELSE LET seq == nextRdmnetSequence(w.rdmnetSequence)
                   w1 == Emit([w EXCEPT !.rdmnetSequence = seq],
                              <<"write", "Disconnect", seq>>)
               IN IF w.sockets[w.socket].st = "open"
                  THEN Step(StopFinish(w1))
                  ELSE Step([w1 EXCEPT !.stopWrite = w.socket])

\* A user calls sendEndpointAdvertisement.
SendEndpointAdvertisement(endpointId, role, profiles) ==
    /\ UserTurn
    /\ advertWrite = NoAdvert
    /\ Step(RunMicrotasks(sendEndpointAdvertisement(
            Call("sendEndpointAdvertisement"), endpointId, role, profiles)))

\* A user calls rdmTransaction.
RdmTransaction(t) ==
    /\ UserTurn
    /\ transactions[t].pc = "idle"
    /\ Len(waiters) < MaxWaiters
    /\ Step(RunMicrotasks(rdmTransaction(Call("rdmTransaction"), t)))

\* A user waitForMessage whose matcher selects the packets of one tag.
WaitForMessage(tag) ==
    /\ UserTurn
    /\ Len(waiters) < MaxWaiters
    /\ LET w == Call("waitForMessage")
       IN Step(waitForMessage(w, Waiter(FreshWaiterId(w), "user", 0, U32(0), 0, tag)))

\* 'connect' / 'secureConnect' of socket s: onConnected, and the writes that
\* were queued on it complete.
SocketReady(s, authorized) ==
    /\ EventTurn
    /\ sockets[s].st = "connecting"
    /\ cfg.transport = "tcp" => authorized
    /\ LET w1 == [World EXCEPT !.sockets[s].st = "open"]
           w2 == finalizeConnectedState(w1, s, authorized)
           w3 == FinishHeartbeatWrite(
                    FinishAdvertWrite(
                        FinishTxWrites(
                            FinishStopWrite(FinishWrites(w2, s, TRUE, 1), s, TRUE),
                            s, TRUE, 1),
                        s, TRUE),
                    s, TRUE)
       IN Step(RunMicrotasks(w3))

\* postConnectAuth settles.
HookDone(s, ok) ==
    /\ EventTurn
    /\ sockets[s].hook
    /\ LET w1 == [World EXCEPT !.sockets[s].hook = FALSE,
                     !.sockets[s].st = IF @ = "closed" THEN "none" ELSE @]
       IN Step(RunMicrotasks(IF ok THEN FinalizeSuccess(w1, s)
                             ELSE FinalizeFail(w1, s)))

\* 'error' followed by 'close' (lines 1129-1145 and the once('error', reject)
\* of line 1186); the rejected continuations run after both handlers.
SocketError(s) ==
    /\ EventTurn
    /\ sockets[s].st \in {"connecting", "open"}
    /\ LET w1 == Emit(World, <<"error", "PROTOCOL_ERROR">>)
           w2 == onClose(w1, s)
           w3 == FinishHeartbeatWrite(
                    FinishAdvertWrite(
                        FinishTxWrites(
                            FinishStopWrite(FinishWrites(w2, s, FALSE, 1), s, FALSE),
                            s, FALSE, 1),
                        s, FALSE),
                    s, FALSE)
       IN Step(RunMicrotasks(SettleConnect(w3, s, FALSE)))

\* 'close' without an error: the peer closed an open socket, or a destroyed
\* socket reports its close.
SocketClose(s) ==
    /\ chunk.sock = 0
    /\ \/ sockets[s].st = "destroyed"
       \/ sockets[s].st = "open" /\ ~InGap
    /\ Step(RunMicrotasks(onClose(World, s)))

\* Packets that no waiter matches are all handled alike (nothing but the
\* decode happens), so of the replies only one of them is delivered.
Unmatched == Packet("ConnectReply", U32(MaxSeq), StatusOk, 99, 0, NoRole, NoNum, 0)

Relevant(packet) ==
    \/ packet.vector \notin {"ConnectReply", "ClientBindReply"}
    \/ packet = Unmatched
    \/ \E k \in 1..Len(waiters) : Matches(waiters[k], packet)

\* One iteration of the packet loop of the 'data' handler (lines 1066-1123);
\* more tells whether the chunk holds a further packet.
DataPacket(s, packet, more) ==
    /\ ~InGap
    /\ sockets[s].st = "open"
    /\ Relevant(packet)
    /\ chunk.sock \in {0, s}
    /\ more => chunk.n + 2 <= MaxChunk
    /\ LET w1 == dispatchPacket(World, packet)
       IN IF more
          THEN Step([w1 EXCEPT !.chunk = [sock |-> s, n |-> chunk.n + 1]])
          ELSE Step(RunMicrotasks([w1 EXCEPT !.chunk = [sock |-> 0, n |-> 0]]))

\* 'data' of socket s with a chunk of bytes: the whole handler, then the
\* continuations it made runnable.
DataChunk(s, bytes) ==
    /\ EventTurn
    /\ sockets[s].st = "open"
    /\ Step(RunMicrotasks(onData(Emit(World, <<"data", s, bytes>>), bytes)))

\* The chunks the peer sends: packets of an unassigned root vector that carry
\* one tag byte, alone or in one chunk with a packet of one of the four
\* decoded vectors whose payload is empty, a longer packet split over two
\* chunks, and bytes that do not start with the ACN preamble.
OtherBytes(t) == buildRdmnetPacket(U32(RootUnassigned), <<t>>, Cid)

MalformedBytes(root) == buildRdmnetPacket(U32(root), <<>>, Cid)

LongBytes == buildRdmnetPacket(U32(RootUnassigned), <<1, 0, 0, 0, 0, 0>>, Cid)

CorruptBytes == [OtherBytes(1) EXCEPT ![1] = 255]

Chunks ==
    {OtherBytes(t) : t \in Tags}
        \cup {MalformedBytes(r) \o OtherBytes(1) : r \in RootBroker..RootLlrp}
        \cup {OtherBytes(2) \o MalformedBytes(r) : r \in RootBroker..RootLlrp}
        \cup {SubSeq(LongBytes, 1, HeaderSize + 1),
              SubSeq(LongBytes, HeaderSize + 2, Len(LongBytes))}
        \cup {CorruptBytes}

WaiterTimeout(id) ==
    /\ EventTurn
    /\ id \in waiterTimers
    /\ Step(RunMicrotasks(waiterTimeout(Emit(World, <<"timer", id>>), id)))

\* The heartbeat interval fires (lines 1193-1209).  One write at a time is
\* kept queued on a socket that is still connecting.
HeartbeatTick ==
    /\ EventTurn
    /\ heartbeatTimer
    /\ socket \notin heartbeatWrites
    /\ Step(RunMicrotasks(heartbeatTick(Emit(World, <<"tick">>))))

\* The reconnect timer fires (lines 1224-1230).
ReconnectFire ==
    /\ EventTurn
    /\ reconnectTimer
    /\ MayOpen
    /\ Step(connect(Emit([World EXCEPT !.reconnectTimer = FALSE],
                          <<"timerConnect">>),
                     <<"reconnect", 0>>))

Configs ==
    [autoReconnect : BOOLEAN, transport : {"tcp", "tls"},
     requireTlsAuthorization : BOOLEAN, postConnectAuth : BOOLEAN,
     heartbeatIntervalMs : {0, 15000},
     reconnectDelayMs : {DefaultReconnectDelayMs},
     reconnectMaxDelayMs : {DefaultReconnectMaxDelayMs},
     maxBufferBytes : {DefaultMaxBufferBytes},
     heartbeatVector : {RootBroker}]

\* ------------------------------------------------------------ DMXController
\* The controller and its universes are objects of their own; the client's
\* variables do not change when they act.
UniverseIds == 1..MaxUniverses
FlushIds == 1..MaxFlushes
FrameSize == 512      \* channels of a universe frame
Addresses == 1..FrameSize
AllUniverses == 0     \* flush called without a universe id

clientVars ==
    <<cfg, socket, sockets, connectPromise, manualClose, reconnectAttempts,
      reconnectTimer, heartbeatTimer, waiters, waiterTimers, rdmnetSequence,
      brokerState, brokerClientId, brokerNegotiatedRole,
      brokerNegotiatedProfile, endpointCapabilities, sessions, callers,
      reconnectAwait, stopWrite, chunk, streamBuffer, transactions,
      advertWrite, heartbeatWrites>>

\* A JavaScript number is counted in tenths, so that 12.6 is 126.
Tenths == 10
UniverseMin == 1
UniverseMax == 63999
ChannelMin == 1
OutOfRangeId == 64000

Num(n) == n * Tenths

isInteger(x) == x % Tenths = 0

\* Math.round: to the nearest integer, halves upwards.
round(x) == (x + (Tenths \div 2)) \div Tenths

\* artSync is the option of that name; sendSync is the set of universe ids
\* whose sender, as the sender factory makes it, has a sendSync method;
\* senderChecksId says whether making a sender throws for a universe id
\* outside 1..63999 (the sACN Sender does, the ArtNetSender does not).
ControllerOptionSets ==
    [artSync : BOOLEAN, sendSync : SUBSET UniverseIds, senderChecksId : BOOLEAN]

DefaultOptions == [artSync |-> FALSE, sendSync |-> {}, senderChecksId |-> TRUE]

\* sent, dirtyAtCall, alone and synced record what a call has done so far:
\* the universes it passed to sendRaw, the universes that were dirty when it
\* was made, whether no other call of the controller ran meanwhile, and the
\* universes whose sender it called sendSync on.
IdleFlush ==
    [pc |-> "idle", target |-> AllUniverses, force |-> FALSE, index |-> 0,
     shouldSync |-> FALSE, dirtyAtCall |-> {}, sent |-> <<>>, alone |-> TRUE,
     synced |-> <<>>]

InitController(optionSets) ==
    /\ options \in optionSets
    /\ universes = <<>>
    /\ flushes = [f \in FlushIds |-> IdleFlush]
    /\ objects = 0

ControllerState ==
    [universes |-> universes, flushes |-> flushes, objects |-> objects,
     trace |-> <<>>]

CommitController(c) ==
    /\ \A f \in FlushIds : Len(c.flushes[f].sent) <= MaxSent
    /\ c.objects <= MaxObjects
    /\ universes' = c.universes
    /\ flushes' = c.flushes
    /\ objects' = c.objects
    /\ trace' = c.trace
    /\ UNCHANGED <<options, clientVars, discovery, artnet, sender>>

\* clampByte: clamp(round(v), 0, 255).
clampByte(value) ==
    IF round(value) < 0 THEN 0 ELSE IF round(value) > 255 THEN 255 ELSE round(value)

\* ----- Universe
\* A frame is written down as the function that gives the value of each
\* channel that is not 0, so that the frame of zeros is the empty function.
ZeroFrame == <<>>

Channel(data, a) == IF a \in DOMAIN data THEN data[a] ELSE 0

\* data[a - 1] = v
Put(data, a, v) ==
    LET dom == IF v = 0 THEN DOMAIN data \ {a} ELSE DOMAIN data \cup {a}
    IN [x \in dom |-> IF x = a THEN v ELSE data[x]]

\* new Universe(id): object number n, a frame of zeros, not dirty.
NewUniverse(id, n) ==
    [id |-> id, universe |-> n, sender |-> n, dirty |-> FALSE, data |-> ZeroFrame]

\* Universe.setChannel.
universeSetChannel(u, address, value) ==
    IF ~isInteger(address) \/ address < Num(ChannelMin) \/ address > Num(FrameSize)
    THEN [ok |-> FALSE, u |-> u]
    ELSE [ok |-> TRUE,
          u |-> [u EXCEPT !.data = Put(@, address \div Tenths, clampByte(value)),
                          !.dirty = TRUE]]

\* Universe.setFrame: the first min(length, size) values, zeros after them.
universeSetFrame(u, frame) ==
    LET length == Min(Len(frame), FrameSize)
    IN [u EXCEPT !.data = [a \in {x \in 1..length : clampByte(frame[x]) # 0} |->
                              clampByte(frame[a])],
                 !.dirty = TRUE]

\* Universe.fill, Universe.clear, Universe.markDirty.
fill(u, value) ==
    [u EXCEPT !.data = IF clampByte(value) = 0 THEN ZeroFrame
                       ELSE [a \in Addresses |-> clampByte(value)],
              !.dirty = TRUE]

clear(u) == [u EXCEPT !.data = ZeroFrame, !.dirty = TRUE]

markDirty(u) == [u EXCEPT !.dirty = TRUE]

\* A consumeDirty that forgets to reset the flag.
consumeDirtyKeepsFlag(u) == [wasDirty |-> u.dirty, u |-> u]

consumeDirty(u) == [wasDirty |-> u.dirty, u |-> [u EXCEPT !.dirty = FALSE]]

isDirty(u) == u.dirty

\* this.universes.get(id): the position of the entry, 0 when there is none.
EntryOf(c, id) ==
    IF \E i \in 1..Len(c.universes) : c.universes[i].id = id
    THEN CHOOSE i \in 1..Len(c.universes) : c.universes[i].id = id
    ELSE 0

DirtyIds(c) ==
    {c.universes[i].id : i \in {j \in 1..Len(c.universes) : c.universes[j].dirty}}

\* Another call of the controller runs while the flushes in progress wait.
DisturbOthers(c, f0) ==
    [c EXCEPT !.flushes =
        [f \in FlushIds |-> IF @[f].pc = "idle" \/ f = f0 THEN @[f]
                            ELSE [@[f] EXCEPT !.alone = FALSE]]]

Disturb(c) == DisturbOthers(c, 0)

InRange(id) == id >= UniverseMin /\ id <= UniverseMax

\* addUniverse (lines 80-89): createSender, then new Universe(id), then
\* Map.set.  The result names the Universe object that is returned.
addUniverse(c, id) ==
    IF EntryOf(c, id) # 0
    THEN [ok |-> TRUE, c |-> c, universe |-> c.universes[EntryOf(c, id)].universe]
    ELSE IF options.senderChecksId /\ ~InRange(id)
    THEN [ok |-> FALSE, c |-> Emit(c, <<"rangeError">>), universe |-> 0]
    ELSE LET n == c.objects + 1
             made == Emit([c EXCEPT !.objects = n], <<"createSender", id, n>>)
         IN IF ~InRange(id)
            THEN [ok |-> FALSE, c |-> Emit(made, <<"rangeError">>), universe |-> 0]
            ELSE [ok |-> TRUE,
                  c |-> [made EXCEPT !.universes = Append(@, NewUniverse(id, n))],
                  universe |-> n]

ReturnUniverse(c, name, value) == Emit(c, <<"return", name, value>>)

\* DMXController.setChannel (lines 97-101).
setChannel(c0, universeId, address, value) ==
    LET added == addUniverse(c0, universeId)
    IN IF ~added.ok THEN added.c
       ELSE LET i == EntryOf(added.c, universeId)
                set == universeSetChannel(added.c.universes[i], address, value)
            IN IF ~set.ok THEN Emit(added.c, <<"rangeError">>)
               ELSE ReturnUniverse([added.c EXCEPT !.universes[i] = set.u],
                             "setChannel", added.universe)

\* DMXController.setFrame (lines 106-110).
setFrame(c0, universeId, frame) ==
    LET added == addUniverse(c0, universeId)
    IN IF ~added.ok THEN added.c
       ELSE LET i == EntryOf(added.c, universeId)
            IN ReturnUniverse([added.c EXCEPT !.universes[i] =
                            universeSetFrame(added.c.universes[i], frame)],
                        "setFrame", added.universe)

flushReturn(c, f) ==
    LET fl == c.flushes[f]
    IN Emit([c EXCEPT !.flushes[f] = IdleFlush],
            <<"flushReturn", f, fl.target, fl.force, fl.dirtyAtCall, fl.sent,
              fl.alone, fl.synced>>)

flushThrow(c, f) ==
    LET fl == c.flushes[f]
    IN Emit([c EXCEPT !.flushes[f] = IdleFlush],
            <<"flushThrow", f, fl.target, fl.force, fl.dirtyAtCall, fl.sent,
              fl.alone, fl.synced>>)

\* flushEntry (lines 139-143) up to its await, for the entry at position i.
\* skipClean is "!force && !entry.universe.consumeDirty()" taken as written;
\* the result says whether sendRaw was invoked.
flushEntryWith(c, f, i, skipClean) ==
    LET fl == c.flushes[f]
        entry == c.universes[i]
        consumed == IF fl.force THEN c
                    ELSE [c EXCEPT !.universes[i] = consumeDirty(entry).u]
    IN IF skipClean /\ ~fl.force /\ ~consumeDirty(entry).wasDirty
       THEN [sending |-> FALSE, c |-> consumed]
       ELSE [sending |-> TRUE,
             c |-> Emit([consumed EXCEPT !.flushes[f].pc = "sendRaw",
                                         !.flushes[f].sent = Append(@, entry.id)],
                        <<"sendRaw", f, entry.id, entry.data>>)]

\* A flushEntry that sends whatever the flag says.
flushEntryAlways(c, f, i) == flushEntryWith(c, f, i, FALSE)

flushEntry(c, f, i) == flushEntryWith(c, f, i, TRUE)

\* After the loop (lines 128-136): one sendSync to the first sender that
\* has the method.
flushEnd(c, f) ==
    LET withSync == {i \in 1..Len(c.universes) : c.universes[i].id \in options.sendSync}
    IN IF c.flushes[f].shouldSync /\ options.artSync /\ withSync # {}
       THEN LET i == CHOOSE j \in withSync : \A k \in withSync : j <= k
            IN Emit([c EXCEPT !.flushes[f].pc = "sendSync",
                             !.flushes[f].synced = Append(@, c.universes[i].id)],
                    <<"sendSync", f, c.universes[i].id>>)
       ELSE flushReturn(c, f)

\* The loop of lines 124-127 from the iterator's position up to the next
\* sendRaw.  It reads the map as it is when it resumes.
RECURSIVE flushLoop(_, _)
flushLoop(c, f) ==
    IF c.flushes[f].index >= Len(c.universes) THEN flushEnd(c, f)
    ELSE LET i == c.flushes[f].index + 1
             r == flushEntry([c EXCEPT !.flushes[f].index = i], f, i)
         IN IF r.sending THEN r.c ELSE flushLoop(r.c, f)

\* flush (lines 115-137) up to its first await.
flush(c0, f, universeId, force) ==
    LET c == [Disturb(c0) EXCEPT !.flushes[f] =
                 [IdleFlush EXCEPT !.pc = "called", !.target = universeId,
                                   !.force = force,
                                   !.dirtyAtCall = DirtyIds(c0),
                                   !.alone = \A g \in FlushIds :
                                                c0.flushes[g].pc = "idle"]]
    IN IF universeId # AllUniverses
       THEN IF EntryOf(c, universeId) = 0 THEN flushReturn(c, f)
            ELSE LET r == flushEntry(c, f, EntryOf(c, universeId))
                 IN IF r.sending THEN r.c ELSE flushReturn(r.c, f)
       ELSE flushLoop(c, f)

\* The promise of sendRaw settles and the flush goes on.
sendRawSettles(c, f, ok) ==
    IF ~ok THEN flushThrow(c, f)
    ELSE IF c.flushes[f].target # AllUniverses THEN flushReturn(c, f)
    ELSE flushLoop([c EXCEPT !.flushes[f].shouldSync = TRUE], f)

\* close (lines 145-150).  A map iterator that is still open goes on with
\* the entries added after the clear.
closeController(c) ==
    LET closed == [e \in 1..Len(c.universes) |->
                      <<"closeSender", c.universes[e].id, c.universes[e].sender>>]
    IN [Disturb(c) EXCEPT !.universes = <<>>,
                          !.flushes = [f \in FlushIds |-> [@[f] EXCEPT !.index = 0]],
                          !.trace = @ \o closed]

\* addUniverse(id) and universe(id), which is the same call.
AddUniverse(id) ==
    LET added == addUniverse(Emit(Disturb(ControllerState), <<"call", "addUniverse", id>>), id)
    IN CommitController(IF added.ok
                        THEN ReturnUniverse(added.c, "addUniverse", added.universe)
                        ELSE added.c)

SetChannel(universeId, address, value) ==
    CommitController(setChannel(Emit(Disturb(ControllerState),
                                     <<"call", "setChannel", universeId>>),
                                universeId, address, value))

SetFrame(universeId, frame) ==
    CommitController(setFrame(Emit(Disturb(ControllerState),
                                   <<"call", "setFrame", universeId>>),
                              universeId, frame))

Flush(f, universeId, force) ==
    /\ flushes[f].pc = "idle"
    /\ CommitController(flush(Emit(ControllerState, <<"call", "flush">>), f, universeId, force))

SendRawSettles(f, ok) ==
    /\ flushes[f].pc = "sendRaw"
    /\ CommitController(sendRawSettles(DisturbOthers(ControllerState, f), f, ok))

SendSyncSettles(f, ok) ==
    /\ flushes[f].pc = "sendSync"
    /\ CommitController(IF ok THEN flushReturn(DisturbOthers(ControllerState, f), f)
                        ELSE flushThrow(DisturbOthers(ControllerState, f), f))

\* The methods of a Universe object the caller got from the controller.
UniverseSetChannel(i, address, value) ==
    /\ i \in 1..Len(universes)
    /\ LET c == Emit(Disturb(ControllerState),
                     <<"call", "Universe.setChannel", i, address, value>>)
           set == universeSetChannel(c.universes[i], address, value)
       IN CommitController(IF set.ok THEN [c EXCEPT !.universes[i] = set.u]
                           ELSE Emit(c, <<"rangeError">>))

UniverseWrite(i, method, value) ==
    /\ i \in 1..Len(universes)
    /\ LET c == Emit(Disturb(ControllerState), <<"call", method, i, value>>)
           u == c.universes[i]
       IN CommitController(
            [c EXCEPT !.universes[i] =
                CASE method = "Universe.fill" -> fill(u, value)
                  [] method = "Universe.clear" -> clear(u)
                  [] method = "Universe.markDirty" -> markDirty(u)])

UniverseConsumeDirty(i) ==
    /\ i \in 1..Len(universes)
    /\ LET c == Emit(Disturb(ControllerState), <<"call", "Universe.consumeDirty", i>>)
           consumed == consumeDirty(c.universes[i])
       IN CommitController(Emit([c EXCEPT !.universes[i] = consumed.u],
                                <<"return", "consumeDirty", consumed.wasDirty>>))

UniverseIsDirty(i) ==
    /\ i \in 1..Len(universes)
    /\ LET c == Emit(Disturb(ControllerState), <<"call", "Universe.isDirty", i>>)
       IN CommitController(Emit(c, <<"return", "isDirty", isDirty(c.universes[i])>>))

CloseController ==
    CommitController(closeController(Emit(ControllerState, <<"call", "close">>)))

ReferencedIds == UniverseIds \cup {OutOfRangeId}

\* Channel addresses and values a caller passes: whole and fractional, in
\* and out of range.
AddressArgs ==
    {Num(a) : a \in {0, 1, 2, FrameSize, FrameSize + 1}} \cup {Num(1) + 1}
ValueArgs == {Num(-1), Num(7), Num(12) + 6, Num(12) + 5, Num(12) + 4, Num(999)}
FrameArgs == {<<>>, <<Num(7)>>, [a \in 1..(FrameSize + 1) |-> Num(300)]}

UniverseNext ==
    \/ \E i \in UniverseIds, address \in AddressArgs, value \in ValueArgs :
            UniverseSetChannel(i, address, value)
    \/ \E i \in UniverseIds, value \in ValueArgs,
          method \in {"Universe.fill", "Universe.clear", "Universe.markDirty"} :
            UniverseWrite(i, method, value)
    \/ \E i \in UniverseIds : UniverseConsumeDirty(i)
    \/ \E i \in UniverseIds : UniverseIsDirty(i)

ControllerNext ==
    \/ \E id \in ReferencedIds : AddUniverse(id)
    \/ \E id \in ReferencedIds, address \in AddressArgs, value \in ValueArgs :
            SetChannel(id, address, value)
    \/ \E id \in ReferencedIds, frame \in FrameArgs : SetFrame(id, frame)
    \/ \E f \in FlushIds, id \in UniverseIds \cup {AllUniverses}, force \in BOOLEAN :
            Flush(f, id, force)
    \/ \E f \in FlushIds, ok \in BOOLEAN : SendRawSettles(f, ok)
    \/ \E f \in FlushIds, ok \in BOOLEAN : SendSyncSettles(f, ok)
    \/ CloseController
    \/ UniverseNext

\* ------------------------------------------------------- RDM discovery
\* discoverDevices (artnet/rdm/discovery) and the RdmTransport it is given.
\* A UID is the number uidToBigInt makes of it; the 48-bit range is scaled
\* down to UID_MIN..UID_MAX = 0..MaxUid.
UID_MIN == 0
UID_MAX == MaxUid
Uids == UID_MIN..UID_MAX
NoUid == -1           \* decodeDiscoveryResponse returned null

DISCOVERY_PREAMBLE == 254
DISCOVERY_SEPARATOR == 170
DISCOVERY_PREAMBLE_LEN == 7
DiscoveryMinLength == DISCOVERY_PREAMBLE_LEN + 1 + 12 + 4
DeviceIdSpan == 2     \* device ids of one manufacturer; stands for 2^32

RECURSIVE BitAnd(_, _)
BitAnd(a, b) ==
    IF a = 0 \/ b = 0 THEN 0
    ELSE (a % 2) * (b % 2) + 2 * BitAnd(a \div 2, b \div 2)

RECURSIVE BitOr(_, _)
BitOr(a, b) ==
    IF a = 0 THEN b ELSE IF b = 0 THEN a
    ELSE (IF a % 2 = 1 \/ b % 2 = 1 THEN 1 ELSE 0) + 2 * BitOr(a \div 2, b \div 2)

RECURSIVE Sum(_)
Sum(bytes) == IF bytes = <<>> THEN 0 ELSE Head(bytes) + Sum(Tail(bytes))

\* uidToBigInt and uidFromBigInt (artnet/rdm/uid), the manufacturer id
\* counting DeviceIdSpan.
uidToBigInt(uid) == uid.manufacturerId * DeviceIdSpan + uid.deviceId

uidFromBigInt(value) ==
    [manufacturerId |-> (value \div DeviceIdSpan) % 65536,
     deviceId |-> value % DeviceIdSpan]

\* uidToBuffer: writeUInt16BE(manufacturerId), writeUInt32BE(deviceId).
uidToBuffer(uid) ==
    writeUInt16BE(uid.manufacturerId % 65536)
        \o writeUInt16BE(uid.deviceId \div 65536)
        \o writeUInt16BE(uid.deviceId % 65536)

\* uidFromBuffer of six bytes whose device id stays below 2^31.
uidFromBuffer(buf) ==
    [manufacturerId |-> readUInt16BE(buf, 0),
     deviceId |-> readUInt16BE(buf, 2) * 65536 + readUInt16BE(buf, 4)]

\* The frame a device answers a probe with (E1.20 7.5.3): after the
\* preamble and the separator each byte b of the UID as b | 0xAA, b | 0x55,
\* then the sum of those twelve bytes, its two bytes spread the same way.
SpreadBytes(bytes) ==
    [k \in 1..(2 * Len(bytes)) |->
        BitOr(bytes[(k + 1) \div 2], IF k % 2 = 1 THEN 170 ELSE 85)]

DiscoveryResponseOf(uid) ==
    LET encodedUid == SpreadBytes(uidToBuffer(uid))
    IN [k \in 1..DISCOVERY_PREAMBLE_LEN |-> DISCOVERY_PREAMBLE]
           \o <<DISCOVERY_SEPARATOR>> \o encodedUid
           \o SpreadBytes(writeUInt16BE(Sum(encodedUid) % 65536))

\* The response frames of a probe: the frame of each device, and a frame
\* whose checksum is wrong.
Frames ==
    {DiscoveryResponseOf(uidFromBigInt(u)) : u \in Uids}
        \cup {[DiscoveryResponseOf(uidFromBigInt(UID_MIN)) EXCEPT ![DiscoveryMinLength] = 0]}

ResponseLists == UNION {[1..n -> Frames] : n \in 0..MaxResponses}

\* decodeDiscoveryResponse (lines 15-44); the UID is given as the number
\* uidToBigInt makes of it.
decodeDiscoveryResponse(buffer) ==
    LET start == DISCOVERY_PREAMBLE_LEN + 1
        encodedUid == subarray(buffer, start, start + 12)
        encodedChecksum == subarray(buffer, start + 12, start + 16)
        uidBytes == [i \in 1..6 |-> BitAnd(encodedUid[2 * i - 1], encodedUid[2 * i])]
        checksumBytes == <<BitAnd(encodedChecksum[1], encodedChecksum[2]),
                           BitAnd(encodedChecksum[3], encodedChecksum[4])>>
    IN IF Len(buffer) < DiscoveryMinLength THEN NoUid
       ELSE IF \E i \in 1..DISCOVERY_PREAMBLE_LEN : buffer[i] # DISCOVERY_PREAMBLE
       THEN NoUid
       ELSE IF buffer[DISCOVERY_PREAMBLE_LEN + 1] # DISCOVERY_SEPARATOR THEN NoUid
       ELSE IF Sum(encodedUid) % 65536 # readUInt16BE(checksumBytes, 0) THEN NoUid
       ELSE uidToBigInt(uidFromBuffer(uidBytes))

\* A range test that leaves out the upper end.
uidInRangeBelow(uid, lower, upper) == uid >= lower /\ uid < upper

uidInRange(uid, lower, upper) == uid >= lower /\ uid <= upper

\* devices are the UIDs of the devices on the line of a transport that
\* reports each of them; log is what the transport saw of the call, in order: each request that
\* was made of it and, after it, what it answered; of the frames that
\* answer a probe, how many decoded to a UID of the probed range and, when
\* it was one, which.
IdleDiscovery ==
    [pc |-> "idle", muteFound |-> FALSE, unmuteAtEnd |-> FALSE,
     sendMute |-> FALSE, sendUnMute |-> FALSE,
     lower |-> UID_MIN, upper |-> UID_MIN, stack |-> <<>>, uid |-> NoUid,
     results |-> <<>>, muted |-> <<>>, index |-> 0, log |-> <<>>,
     devices |-> {}]

Logged(d, e) == [d EXCEPT !.log = Append(@, e)]

\* discoverRange(lower, upper) up to its first await (line 99).
discoverRange(d, lower, upper) ==
    Logged([d EXCEPT !.pc = "probe", !.lower = lower, !.upper = upper],
           <<"sendDiscoveryUniqueBranch", lower, upper>>)

\* The loop of lines 142-158 at muted[i], up to its await.
unmuteFrom(d, i) ==
    IF i > Len(d.muted) THEN [d EXCEPT !.pc = "returned"]
    ELSE Logged([d EXCEPT !.pc = "unmute", !.index = i],
                IF d.sendUnMute THEN <<"sendUnMute", d.muted[i]>>
                ELSE <<"send", "DISC_UN_MUTE", d.muted[i], Len(d.results) % 256>>)

\* A discoverRange call returns: its caller goes on with the upper half it
\* still has to probe (lines 134-136); the outermost caller goes on with
\* line 140.
rangeReturns(d) ==
    IF d.stack # <<>>
    THEN discoverRange([d EXCEPT !.stack = Tail(@)], d.stack[1][1], d.stack[1][2])
    ELSE IF d.unmuteAtEnd THEN unmuteFrom(d, 1)
    ELSE [d EXCEPT !.pc = "returned"]

\* A discoverRange that halves a range of one UID as well.
probeSettlesHalvesSingle(d0, responses) ==
    LET all == [k \in 1..Len(responses) |-> decodeDiscoveryResponse(responses[k])]
        decoded == SelectSeq(all, LAMBDA uid :
                                uid # NoUid /\ uidInRange(uid, d0.lower, d0.upper))
        d == Logged(d0, <<"responses", Len(decoded),
                          IF Len(decoded) = 1 THEN decoded[1] ELSE NoUid>>)
        mid == (d.lower + d.upper) \div 2
    IN IF Len(decoded) = 0 THEN rangeReturns(d)
       ELSE IF Len(decoded) = 1
       THEN IF d.muteFound
            THEN Logged([d EXCEPT !.pc = "mute", !.uid = decoded[1]],
                        IF d.sendMute THEN <<"sendMute", decoded[1]>>
                        ELSE <<"send", "DISC_MUTE", decoded[1], Len(d.results) % 256>>)
            ELSE rangeReturns([d EXCEPT !.results =
                                  Append(@, [uid |-> decoded[1], muted |-> FALSE])])
       ELSE discoverRange(IF mid + 1 <= d.upper
                          THEN [d EXCEPT !.stack = <<<<mid + 1, d.upper>>>> \o @]
                          ELSE d,
                          d.lower, mid)

\* A discoverRange that probes the upper half before the lower half.
probeSettlesUpperFirst(d0, responses) ==
    LET all == [k \in 1..Len(responses) |-> decodeDiscoveryResponse(responses[k])]
        decoded == SelectSeq(all, LAMBDA uid :
                                uid # NoUid /\ uidInRange(uid, d0.lower, d0.upper))
        d == Logged(d0, <<"responses", Len(decoded),
                          IF Len(decoded) = 1 THEN decoded[1] ELSE NoUid>>)
        mid == (d.lower + d.upper) \div 2
    IN IF Len(decoded) = 0 THEN rangeReturns(d)
       ELSE IF Len(decoded) = 1
       THEN IF d.muteFound
            THEN Logged([d EXCEPT !.pc = "mute", !.uid = decoded[1]],
                        IF d.sendMute THEN <<"sendMute", decoded[1]>>
                        ELSE <<"send", "DISC_MUTE", decoded[1], Len(d.results) % 256>>)
            ELSE rangeReturns([d EXCEPT !.results =
                                  Append(@, [uid |-> decoded[1], muted |-> FALSE])])
       ELSE IF d.lower >= d.upper THEN rangeReturns(d)
       ELSE discoverRange([d EXCEPT !.stack = <<<<d.lower, mid>>>> \o @],
                          mid + 1, d.upper)

\* Lines 100-137, from the answer of the probe to the next await.
probeSettles(d0, responses) ==
    LET all == [k \in 1..Len(responses) |-> decodeDiscoveryResponse(responses[k])]
        decoded == SelectSeq(all, LAMBDA uid :
                                uid # NoUid /\ uidInRange(uid, d0.lower, d0.upper))
        d == Logged(d0, <<"responses", Len(decoded),
                          IF Len(decoded) = 1 THEN decoded[1] ELSE NoUid>>)
        mid == (d.lower + d.upper) \div 2
    IN IF Len(decoded) = 0 THEN rangeReturns(d)
       ELSE IF Len(decoded) = 1
       THEN IF d.muteFound
            THEN Logged([d EXCEPT !.pc = "mute", !.uid = decoded[1]],
                        IF d.sendMute THEN <<"sendMute", decoded[1]>>
                        ELSE <<"send", "DISC_MUTE", decoded[1], Len(d.results) % 256>>)
            ELSE rangeReturns([d EXCEPT !.results =
                                  Append(@, [uid |-> decoded[1], muted |-> FALSE])])
       ELSE IF d.lower >= d.upper THEN rangeReturns(d)
       ELSE discoverRange([d EXCEPT !.stack = <<<<mid + 1, d.upper>>>> \o @],
                          d.lower, mid)

\* A mute whose result is not looked at.
muteSettlesAlwaysOk(d0, ok) ==
    LET d == Logged(d0, <<"answer", ok>>)
    IN rangeReturns([d EXCEPT !.results = Append(@, [uid |-> d.uid, muted |-> TRUE]),
                              !.muted = Append(@, d.uid)])

\* Lines 110-127: the mute is answered (sendMute's boolean, or a response
\* or null from send).
muteSettles(d0, ok) ==
    LET d == Logged(d0, <<"answer", ok>>)
    IN rangeReturns([d EXCEPT !.results = Append(@, [uid |-> d.uid, muted |-> ok]),
                              !.muted = IF ok THEN Append(@, d.uid) ELSE @])

\* An un-mute loop that passes over every other UID.
unmuteSettlesSkips(d, ok) == unmuteFrom(Logged(d, <<"answer", ok>>), d.index + 2)

\* Lines 145-156: the un-mute is answered; its result is not used.
unmuteSettles(d, ok) == unmuteFrom(Logged(d, <<"answer", ok>>), d.index + 1)

CommitDiscovery(d) ==
    /\ discovery' = d
    /\ trace' = <<>>
    /\ UNCHANGED <<options, universes, flushes, objects, clientVars, artnet, sender>>

\* discoverDevices(transport, options), lines 90-138.
DiscoverDevices(muteFound, unmuteAtEnd, sendMute, sendUnMute) ==
    /\ discovery.pc \in {"idle", "returned", "rejected"}
    /\ CommitDiscovery(discoverRange([IdleDiscovery EXCEPT !.devices = discovery.devices,
                                                          !.muteFound = muteFound,
                                                          !.unmuteAtEnd = unmuteAtEnd,
                                                          !.sendMute = sendMute,
                                                          !.sendUnMute = sendUnMute],
                                     UID_MIN, UID_MAX))

ProbeSettles(responses) ==
    /\ discovery.pc = "probe"
    /\ CommitDiscovery(probeSettles(discovery, responses))

MuteSettles(ok) ==
    /\ discovery.pc = "mute"
    /\ CommitDiscovery(muteSettles(discovery, ok))

UnmuteSettles(ok) ==
    /\ discovery.pc = "unmute"
    /\ CommitDiscovery(unmuteSettles(discovery, ok))

\* The frames of a transport that answers a probe with the frame of each
\* device of the probed range.
ResponsesOf(devices, lower, upper) ==
    LET inside == SortSet({u \in devices : u >= lower /\ u <= upper})
    IN [k \in 1..Len(inside) |-> DiscoveryResponseOf(uidFromBigInt(inside[k]))]

DevicesAnswer ==
    /\ discovery.pc = "probe"
    /\ CommitDiscovery(probeSettles(discovery,
                                    ResponsesOf(discovery.devices, discovery.lower,
                                                discovery.upper)))

\* The promise of the transport rejects; nothing in discoverDevices catches.
TransportRejects ==
    /\ discovery.pc \in {"probe", "mute", "unmute"}
    /\ CommitDiscovery(Logged([discovery EXCEPT !.pc = "rejected"], <<"rejects">>))

DiscoveryNext ==
    \/ \E muteFound \in BOOLEAN, unmuteAtEnd \in BOOLEAN,
          sendMute \in BOOLEAN, sendUnMute \in BOOLEAN :
            DiscoverDevices(muteFound, unmuteAtEnd, sendMute, sendUnMute)
    \/ \E responses \in ResponseLists : ProbeSettles(responses)
    \/ \E ok \in BOOLEAN : MuteSettles(ok)
    \/ \E ok \in BOOLEAN : UnmuteSettles(ok)
    \/ TransportRejects

\* ------------------------------------------------------- Art-Net packets
\* buildArtDmx and parseArtDmx (artnet/packet); a Buffer is the sequence of
\* its bytes.
ARTNET_ID == <<65, 114, 116, 45, 78, 101, 116, 0>>      \* 'Art-Net\0'
ARTNET_PROTOCOL_VERSION == 14
OpDmx == 20480                 \* 0x5000
ArtDmxHeader == 18             \* bytes before the DMX payload
ArtDmxMinLength == 2
ArtDmxMaxLength == 512
ArtNetUniverseMax == 32768
Undefined == -1                \* an optional field that was left out

writeUInt16LE(n) == <<n % 256, n \div 256>>

readUInt16LE(buffer, offset) == buffer[offset + 1] + buffer[offset + 2] * 256

Zeros(n) == [k \in 1..n |-> 0]

\* A split that takes the universe number for the port address.
splitUniverseAddressZeroBased(universe) ==
    [ok |-> universe >= 1 /\ universe <= ArtNetUniverseMax,
     net |-> (universe \div 256) % 128,
     subUni |-> ((universe \div 16) % 16) * 16 + (universe % 16)]

\* splitUniverseAddress (artnet/util); ok = FALSE is its RangeError.
splitUniverseAddress(universe) ==
    LET address == universe - 1
        net == (address \div 256) % 128
        subNet == (address \div 16) % 16
        uni == address % 16
    IN [ok |-> universe >= 1 /\ universe <= ArtNetUniverseMax,
        net |-> net, subUni |-> subNet * 16 + uni]

writeHeader(opcode) ==
    ARTNET_ID \o writeUInt16LE(opcode) \o writeUInt16BE(ARTNET_PROTOCOL_VERSION)

buildArtDmx(o) ==
    LET length == Min(IF o.length # Undefined THEN o.length ELSE Len(o.data),
                      ArtDmxMaxLength)
        addr == splitUniverseAddress(o.universe)
        copied == Min(length, Len(o.data))
    IN IF ~addr.ok THEN [ok |-> FALSE, buffer |-> <<>>]
       ELSE [ok |-> TRUE,
             buffer |-> writeHeader(OpDmx)
                          \o <<o.sequence % 256,
                               IF o.physical # Undefined THEN o.physical ELSE 0,
                               addr.subUni, addr.net>>
                          \o writeUInt16BE(length)
                          \o SubSeq(o.data, 1, copied) \o Zeros(length - copied)]

NotArtDmx == [kind |-> "null"]
ArtDmxRangeError == [kind |-> "RangeError"]

parseArtDmx(buffer) ==
    IF Len(buffer) < ArtDmxHeader THEN NotArtDmx
    ELSE IF subarray(buffer, 0, 8) # ARTNET_ID THEN NotArtDmx
    ELSE IF readUInt16LE(buffer, 8) # OpDmx THEN NotArtDmx
    ELSE LET subUni == buffer[15]
             net == buffer[16]
             length == readUInt16BE(buffer, 16)
             subNet == (subUni \div 16) % 16
             uni == subUni % 16
             universe == (net % 128) * 256 + subNet * 16 + uni
         IN IF length < ArtDmxMinLength \/ length > ArtDmxMaxLength
            THEN ArtDmxRangeError
            ELSE IF Len(buffer) < ArtDmxHeader + length THEN ArtDmxRangeError
            ELSE [kind |-> "packet",
                  protocolVersion |-> readUInt16BE(buffer, 10),
                  sequence |-> buffer[13], physical |-> buffer[14],
                  net |-> net, subNet |-> subNet, universe |-> universe + 1,
                  length |-> length,
                  data |-> subarray(buffer, ArtDmxHeader, ArtDmxHeader + length)]

DefaultArtDmx ==
    [universe |-> 257, sequence |-> 11, physical |-> 2, data |-> <<1, 2, 3, 4>>,
     length |-> Undefined]

InitArtNet(optionSets) ==
    artnet \in {[pc |-> "options", options |-> o, buffer |-> <<>>,
                 parsed |-> NotArtDmx] : o \in optionSets}

CommitArtNet(a) ==
    /\ artnet' = a
    /\ trace' = <<>>
    /\ UNCHANGED <<options, universes, flushes, objects, clientVars, discovery, sender>>

BuildArtDmx ==
    /\ artnet.pc = "options"
    /\ LET built == buildArtDmx(artnet.options)
       IN CommitArtNet([artnet EXCEPT !.pc = IF built.ok THEN "built" ELSE "RangeError",
                                      !.buffer = built.buffer])

ParseArtDmx ==
    /\ artnet.pc = "built"
    /\ CommitArtNet([artnet EXCEPT !.pc = "parsed", !.parsed = parseArtDmx(artnet.buffer)])

ArtNetNext ==
    \/ BuildArtDmx
    \/ ParseArtDmx

\* ------------------------------------------------------------ sACN Sender
\* Sender (sacn/sender) for one universe.  data is the Uint8Array the
\* caller passes as payload (DMXController passes universe.data), kept as
\* its non-zero channels; latestPacketOptions holds the payload by
\* reference, so it names the array and not its contents.  pending lists the
\* calls whose socket.send has not called back; lastCall is what the last
\* send or sendRaw call of the user put into its packet.
SequenceModulus == 256
DefaultPriority == 100
LowPriority == 50
NoPacketOptions == [set |-> FALSE, priority |-> Undefined]
NotSent == [sent |-> FALSE, dmx |-> ZeroFrame, priority |-> Undefined]

NewSender(refreshRate) ==
    [refreshRate |-> refreshRate, loopId |-> refreshRate > 0, sequence |-> 0,
     latestPacketOptions |-> NoPacketOptions, resendStatus |-> FALSE,
     closed |-> FALSE, data |-> ZeroFrame, pending |-> <<>>,
     lastCall |-> NotSent, trace |-> <<>>]

InitSenderWith(refreshRates) ==
    sender \in {NewSender(refreshRate) : refreshRate \in refreshRates}

\* inRange (sacn/util) of an integer: brought into 0..255.
inRange(value) == IF value < 0 THEN 0 ELSE IF value > 255 THEN 255 ELSE value

\* Packet.buffer: the 512 DMX slots made of a raw payload.
dmxData(payload) ==
    [a \in {x \in DOMAIN payload : x <= FrameSize} |-> inRange(payload[a])]

\* A send that stamps the packet with the sequence after the current one.
senderSendStampsNext(x, packet, origin) ==
    LET next == (x.sequence + 1) % SequenceModulus
        x1 == [x EXCEPT !.latestPacketOptions = [set |-> TRUE, priority |-> packet.priority],
                        !.sequence = next]
    IN IF x.closed THEN Emit(x1, <<"rejected", origin>>)
       ELSE Emit([x1 EXCEPT !.pending = Append(@, origin)],
                 <<"packet", next, dmxData(x.data),
                   IF packet.priority # Undefined THEN packet.priority
                   ELSE DefaultPriority, origin>>)

\* Sender.send and Sender.sendRaw (lines 101-137) up to the await: the
\* packet is built from the payload as it is now, stamped with the current
\* sequence and handed to socket.send, which throws on a closed socket.
senderSend(x, packet, origin) ==
    LET x1 == [x EXCEPT !.latestPacketOptions = [set |-> TRUE, priority |-> packet.priority],
                        !.sequence = (x.sequence + 1) % SequenceModulus]
    IN IF x.closed THEN Emit(x1, <<"rejected", origin>>)
       ELSE Emit([x1 EXCEPT !.pending = Append(@, origin)],
                 <<"packet", x.sequence, dmxData(x.data),
                   IF packet.priority # Undefined THEN packet.priority
                   ELSE DefaultPriority, origin>>)

\* reSend (lines 139-149) up to the await.
reSend(x) ==
    IF ~x.latestPacketOptions.set THEN x
    ELSE senderSend(x, x.latestPacketOptions, "reSend")

updateResendStatus(x, success) ==
    IF success # x.resendStatus
    THEN Emit([x EXCEPT !.resendStatus = success], <<"changedResendStatus", success>>)
    ELSE x

\* The callback of socket.send for the oldest pending call.
sendSettles(x0, ok) ==
    LET origin == Head(x0.pending)
        x == [x0 EXCEPT !.pending = Tail(@)]
    IN IF origin # "reSend" THEN Emit(x, <<IF ok THEN "resolved" ELSE "rejected", origin>>)
       ELSE IF ok THEN updateResendStatus(x, TRUE)
       ELSE Emit(updateResendStatus(x, FALSE), <<"error">>)

senderClose(x) == [x EXCEPT !.loopId = FALSE, !.closed = TRUE]

CommitSender(x) ==
    /\ Len(x.pending) <= MaxPending
    /\ sender' = [x EXCEPT !.trace = <<>>]
    /\ trace' = x.trace
    /\ UNCHANGED <<options, universes, flushes, objects, clientVars, discovery, artnet>>

\* What the packet of a call of the user carries, for later comparison.
UserCall(x, priority) ==
    IF x.closed THEN x
    ELSE [x EXCEPT !.lastCall =
             [sent |-> TRUE, dmx |-> dmxData(x.data),
              priority |-> IF priority # Undefined THEN priority ELSE DefaultPriority]]

\* sender.send({payload: data, priority}) and sender.sendRaw(data, {priority}).
SenderSend(method, priority) ==
    CommitSender(senderSend(UserCall(Emit(sender, <<"call", method>>), priority),
                            [priority |-> priority], method))

\* The owner of the array writes a channel (Universe.setChannel on
\* universe.data).
WriteData(address, value) ==
    CommitSender(Emit([sender EXCEPT !.data = Put(@, address, value)],
                      <<"call", "setChannel">>))

\* The interval of the constructor fires (line 94).
RefreshTick ==
    /\ sender.loopId
    /\ CommitSender(reSend(Emit(sender, <<"tick">>)))

SendSettles(ok) ==
    /\ sender.pending # <<>>
    /\ CommitSender(sendSettles(sender, ok))

SenderClose ==
    /\ ~sender.closed
    /\ CommitSender(senderClose(Emit(sender, <<"call", "close">>)))

SenderNext ==
    \/ \E method \in {"send", "sendRaw"}, priority \in {Undefined, LowPriority} :
            SenderSend(method, priority)
    \/ \E value \in {0, 255} : WriteData(1, value)
    \/ RefreshTick
    \/ \E ok \in BOOLEAN : SendSettles(ok)
    \/ SenderClose

\* The state after construction; streams is the set of contents the
\* reassembly buffer may start with (empty in the client itself).
InitClientAt(configs, streams, sequences) ==
    /\ cfg \in configs
    /\ socket = 0
    /\ sockets = [s \in SocketIds |-> [st |-> "none", hook |-> FALSE]]
    /\ connectPromise = 0
    /\ manualClose = FALSE
    /\ reconnectAttempts = 0
    /\ reconnectTimer = FALSE
    /\ heartbeatTimer = FALSE
    /\ waiters = <<>>
    /\ waiterTimers = {}
    /\ rdmnetSequence \in sequences
    /\ brokerState = Disconnected
    /\ brokerClientId = NoNum
    /\ brokerNegotiatedRole = NoRole
    /\ brokerNegotiatedProfile = NoNum
    /\ endpointCapabilities = [e \in EndpointIds |-> NoCap]
    /\ sessions = [i \in SessionIds |-> IdleSession]
    /\ callers = [c \in CallerIds |-> "idle"]
    /\ reconnectAwait = FALSE
    /\ stopWrite = 0
    /\ chunk = [sock |-> 0, n |-> 0]
    /\ streamBuffer \in streams
    /\ transactions = [t \in TxIds |-> IdleTx]
    /\ advertWrite = NoAdvert
    /\ heartbeatWrites = {}

\* The client as its constructor leaves it (rdmnetSequence = 0, line 476).
InitClient(configs, streams) == InitClientAt(configs, streams, {U32(0)})

InitWithStream(configs, streams) ==
    /\ InitClient(configs, streams)
    /\ InitController({DefaultOptions})
    /\ discovery = IdleDiscovery
    /\ InitArtNet({DefaultArtDmx})
    /\ InitSenderWith({0})
    /\ trace = <<>>

InitWith(configs) == InitWithStream(configs, {<<>>})

Init ==
    InitWith({c \in Configs : c.transport = "tcp" => ~c.requireTlsAuthorization})

Next ==
    \/ \E c \in CallerIds : Connect(c)
    \/ Disconnect
    \/ \E i \in SessionIds, autoBind \in BOOLEAN, strict \in BOOLEAN,
          endpointRole \in BrokerClientRole, profiles \in {<<>>, <<256>>} :
            StartBrokerSession(i, autoBind, strict, endpointRole, profiles)
    \/ StopBrokerSession
    \/ \E tag \in Tags : WaitForMessage(tag)
    \/ \E t \in TxIds : RdmTransaction(t)
    \/ \E e \in EndpointIds, role \in BrokerClientRole, profiles \in ProfileLists :
            SendEndpointAdvertisement(e, role, profiles)
    \/ \E s \in SocketIds, authorized \in BOOLEAN : SocketReady(s, authorized)
    \/ \E s \in SocketIds, ok \in BOOLEAN : HookDone(s, ok)
    \/ \E s \in SocketIds : SocketError(s)
    \/ \E s \in SocketIds : SocketClose(s)
    \/ \E s \in SocketIds, packet \in Packets, more \in BOOLEAN :
            DataPacket(s, packet, more)
    \/ \E s \in SocketIds, bytes \in Chunks : DataChunk(s, bytes)
    \/ \E id \in WaiterIds : WaiterTimeout(id)
    \/ HeartbeatTick
    \/ ReconnectFire
    \/ ControllerNext
    \/ DiscoveryNext
    \/ ArtNetNext
    \/ SenderNext
    \/ DevicesAnswer

Spec == Init /\ [][Next]_vars

\* ------------------------------------------------- focused specifications
\* The full relation Next is too large to enumerate.  Each specification
\* below fixes part of the environment (which calls the user makes, which
\* packets the peer sends, which options the client was built with) and
\* keeps every handler of the client unchanged.
DefaultConfig ==
    [autoReconnect |-> FALSE, transport |-> "tcp",
     requireTlsAuthorization |-> FALSE, postConnectAuth |-> FALSE,
     heartbeatIntervalMs |-> 15000,
     reconnectDelayMs |-> DefaultReconnectDelayMs,
     reconnectMaxDelayMs |-> DefaultReconnectMaxDelayMs,
     maxBufferBytes |-> DefaultMaxBufferBytes,
     heartbeatVector |-> RootBroker]

BrokerPackets == ConnectReplies \cup BindReplies \cup {DisconnectPacket}

NextBroker ==
    \/ Disconnect
    \/ \E i \in SessionIds, autoBind \in BOOLEAN, strict \in BOOLEAN,
          endpointRole \in BrokerClientRole, profiles \in {<<>>, <<256>>} :
            StartBrokerSession(i, autoBind, strict, endpointRole, profiles)
    \/ StopBrokerSession
    \/ \E s \in SocketIds : SocketReady(s, TRUE)
    \/ \E s \in SocketIds : SocketError(s)
    \/ \E s \in SocketIds : SocketClose(s)
    \/ \E s \in SocketIds, packet \in BrokerPackets, more \in BOOLEAN :
            DataPacket(s, packet, more)
    \/ \E id \in WaiterIds : WaiterTimeout(id)

SpecBroker == InitWith({DefaultConfig}) /\ [][NextBroker]_vars

\* The transport alone, under every configuration: connect() callers, manual
\* disconnects, socket events, the postConnectAuth hook, the reconnect timer.
NextConnect ==
    \/ \E c \in CallerIds : Connect(c)
    \/ Disconnect
    \/ \E s \in SocketIds, authorized \in BOOLEAN : SocketReady(s, authorized)
    \/ \E s \in SocketIds, ok \in BOOLEAN : HookDone(s, ok)
    \/ \E s \in SocketIds : SocketError(s)
    \/ \E s \in SocketIds : SocketClose(s)
    \/ ReconnectFire

SpecConnect == Init /\ [][NextConnect]_vars

\* The waiter table with user waiters: waitForMessage calls, inbound packets
\* in chunks, timeouts, disconnects and socket events.
NextWaiters ==
    \/ \E c \in CallerIds : Connect(c)
    \/ Disconnect
    \/ \E tag \in Tags : WaitForMessage(tag)
    \/ \E s \in SocketIds : SocketReady(s, TRUE)
    \/ \E s \in SocketIds : SocketError(s)
    \/ \E s \in SocketIds : SocketClose(s)
    \/ \E s \in SocketIds, packet \in OtherPackets, more \in BOOLEAN :
            DataPacket(s, packet, more)
    \/ \E id \in WaiterIds : WaiterTimeout(id)

SpecWaiters == InitWith({DefaultConfig}) /\ [][NextWaiters]_vars

\* ------------------------------------------------ reading a step's trace
\* The broker states a step passed through: the state it started in, then
\* every state setBrokerState changed to, in order.
BrokerStateTrail(pre, tr) ==
    LET changes == SelectSeq(tr, LAMBDA e : e[1] = "brokerState")
    IN <<pre>> \o [k \in 1..Len(changes) |-> changes[k][2]]

\* The broker state when the k-th entry of the trace was written.
BrokerStateAt(pre, tr, k) ==
    LET trail == BrokerStateTrail(pre, SubSeq(tr, 1, k - 1))
    IN trail[Len(trail)]

Wrote(tr, what) == \E k \in 1..Len(tr) : tr[k][1] = "write" /\ tr[k][2] = what

Called(tr, name) == \E k \in 1..Len(tr) : tr[k][1] = "call" /\ tr[k][2] = name

Threw(tr, i, err) ==
    \E k \in 1..Len(tr) : tr[k][1] = "sessionThrow" /\ tr[k][2] = i /\ tr[k][3] = err

Returned(tr, i) == \E k \in 1..Len(tr) : tr[k][1] = "sessionReturn" /\ tr[k][2] = i

\* The replies that reached a startBrokerSession continuation in the step.
Replies(tr) == SelectSeq(tr, LAMBDA e : e[1] = "reply")

\* ------------------------------------------------------------------ C1
ListedTransitions ==
    {<<Disconnected, TcpConnected>>, <<TcpConnected, Connecting>>,
     <<Connecting, Connected>>, <<Connecting, ErrorState>>,
     <<Connected, Binding>>, <<Binding, Bound>>, <<Binding, ErrorState>>,
     <<Bound, TcpConnected>>, <<Connected, TcpConnected>>}
    \cup {<<st, Disconnected>> : st \in BrokerSessionState}

\* C1: every change of the broker session state is one of the listed
\* transitions (Disconnected->TcpConnected, TcpConnected->Connecting,
\* Connecting->Connected, Connecting->Error, Connected->Binding,
\* Binding->Bound, Binding->Error, Bound|Connected->TcpConnected,
\* any->Disconnected) and no other change occurs.
C1_OnlyListedTransitions ==
    [][LET trail == BrokerStateTrail(brokerState, trace')
       IN \A k \in 1..(Len(trail) - 1) :
              <<trail[k], trail[k + 1]>> \in ListedTransitions]_vars

\* ------------------------------------------------------------------ C2
\* What the negotiation of a ClientBindReply must satisfy to be accepted.
ValidNegotiation(session, p) ==
    \/ ~session.strict
    \/ /\ p.negotiatedRole = session.endpointRole
       /\ \/ session.profiles = <<>>
          \/ \E k \in 1..Len(session.profiles) :
                 session.profiles[k] = p.negotiatedProfile

\* C2: the happy path of startBrokerSession with autoBind.  The call moves
\* the state to Connecting when it sends its ConnectRequest; a matching
\* ConnectReply(Ok, clientId = c) that finds the client connected and the
\* state Connecting moves it through Connected to Binding, stores c and
\* sends the ClientBindRequest; a
\* matching ClientBindReply(Ok) with a valid negotiation that finds the state
\* Binding ends in Bound, leaves the client id in place, returns, and the
\* capability cache holds for the bound endpoint the negotiated role, the
\* negotiated profile and the source broker_negotiation.
C2_HappyPath ==
    [][/\ \A k \in 1..Len(trace') :
            (trace'[k][1] = "write" /\ trace'[k][2] = "ConnectRequest") =>
              BrokerStateAt(brokerState, trace', k) = Connecting
       /\ \A k \in 1..Len(trace') :
            (trace'[k][1] = "reply" /\ Len(Replies(trace')) = 1) =>
              LET i == trace'[k][2]
                  p == trace'[k][3]
                  before == BrokerStateAt(brokerState, trace', k)
              IN /\ ( /\ p.vector = "ConnectReply"
                      /\ p.statusCode = StatusOk
                      /\ sessions[i].autoBind
                      /\ isConnected(World)
                      /\ before = Connecting )
                    => /\ SubSeq(BrokerStateTrail(before, SubSeq(trace', k, Len(trace'))), 1, 3)
                            = <<Connecting, Connected, Binding>>
                       /\ brokerState' = Binding
                       /\ brokerClientId' = p.clientId
                       /\ Wrote(trace', "ClientBindRequest")
                 /\ ( /\ p.vector = "ClientBindReply"
                      /\ p.statusCode = StatusOk
                      /\ ValidNegotiation(sessions[i], p)
                      /\ before = Binding )
                    => /\ brokerState' = Bound
                       /\ brokerClientId' = brokerClientId
                       /\ brokerClientId' \in ClientIds
                       /\ Returned(trace', i)
                       /\ endpointCapabilities'[DefaultEndpointId] =
                              [role |-> p.negotiatedRole,
                               profiles |-> <<p.negotiatedProfile>>,
                               source |-> "broker_negotiation"]]_vars

C2_Witness ==
    /\ brokerState = Bound
    /\ brokerClientId = 99
    /\ endpointCapabilities[DefaultEndpointId] =
           [role |-> Device, profiles |-> <<512>>, source |-> "broker_negotiation"]
    /\ \E k \in 1..Len(trace) :
           /\ trace[k][1] = "reply"
           /\ trace[k][3].vector = "ClientBindReply"
           /\ Returned(trace, trace[k][2])

\* ------------------------------------------------------------------ C3
\* The error codes the specification gives for the broker statuses.
StatusErrorCode(status) ==
    CASE status = StatusRejected -> "BROKER_REJECTED"
      [] status = StatusInvalidScope -> "BROKER_INVALID_SCOPE"
      [] status = StatusUnauthorized -> "BROKER_UNAUTHORIZED"
      [] status = StatusAlreadyConnected -> "BROKER_ALREADY_CONNECTED"
      [] status = StatusInvalidRequest -> "BROKER_INVALID_REQUEST"

\* C3: when the ConnectReply that reaches a startBrokerSession call carries a
\* status other than Ok, the broker state becomes Error, no bind request is
\* sent, the reply's client id is not stored, and the call rejects with an
\* RdmnetError of domain broker whose code is the mapping of the status and
\* whose statusCode is the numeric status.
C3_ConnectRejected ==
    [][\A k \in 1..Len(trace') :
         ( /\ trace'[k][1] = "reply"
           /\ Len(Replies(trace')) = 1
           /\ trace'[k][3].vector = "ConnectReply"
           /\ trace'[k][3].statusCode # StatusOk )
         => LET i == trace'[k][2]
                p == trace'[k][3]
            IN /\ brokerState' = ErrorState
               /\ ~Wrote(trace', "ClientBindRequest")
               /\ brokerClientId' \in {brokerClientId, NoNum}
               /\ sessions[i].reply.st = "none" => brokerClientId' = brokerClientId
               /\ Threw(trace', i, [domain |-> "broker",
                                    code |-> StatusErrorCode(p.statusCode),
                                    statusCode |-> p.statusCode])
               /\ ~Returned(trace', i)]_vars

C3_Witness ==
    /\ brokerState = ErrorState
    /\ brokerClientId = NoNum
    /\ \E k \in 1..Len(trace) :
           /\ trace[k][1] = "reply"
           /\ trace[k][3].vector = "ConnectReply"
           /\ trace[k][3].statusCode = StatusInvalidScope
           /\ trace[k][3].clientId = 99
           /\ Threw(trace, trace[k][2],
                    [domain |-> "broker", code |-> "BROKER_INVALID_SCOPE",
                     statusCode |-> 2])

\* ------------------------------------------------------------------ C4
\* C4: under strictNegotiation a ClientBindReply(Ok) whose negotiated role
\* differs from the requested endpointRole fails the call with
\* NEGOTIATION_ROLE_MISMATCH, and one with the requested role whose negotiated
\* profile is not in the non-empty requested profile list fails it with
\* NEGOTIATION_PROFILE_MISMATCH; in both cases the state becomes Error and
\* not Bound, and the capability cache and the negotiated role and profile
\* stay as they were when the reply arrived.
C4_StrictNegotiation ==
    [][\A k \in 1..Len(trace') :
         ( /\ trace'[k][1] = "reply"
           /\ Len(Replies(trace')) = 1
           /\ trace'[k][3].vector = "ClientBindReply"
           /\ trace'[k][3].statusCode = StatusOk
           /\ sessions[trace'[k][2]].strict )
         => LET i == trace'[k][2]
                p == trace'[k][3]
                session == sessions[i]
                roleMismatch == p.negotiatedRole # session.endpointRole
                profileMismatch ==
                    /\ ~roleMismatch
                    /\ session.profiles # <<>>
                    /\ \A j \in 1..Len(session.profiles) :
                           session.profiles[j] # p.negotiatedProfile
            IN /\ roleMismatch =>
                    Threw(trace', i, [domain |-> "negotiation",
                                      code |-> "NEGOTIATION_ROLE_MISMATCH",
                                      statusCode |-> NoNum])
               /\ profileMismatch =>
                    Threw(trace', i, [domain |-> "negotiation",
                                      code |-> "NEGOTIATION_PROFILE_MISMATCH",
                                      statusCode |-> NoNum])
               /\ (roleMismatch \/ profileMismatch) =>
                    /\ brokerState' = ErrorState
                    /\ \A j \in 1..Len(trace') :
                           trace'[j][1] = "brokerState" => trace'[j][2] # Bound
                    /\ ~Returned(trace', i)
                    /\ sessions[i].reply.st = "none" =>
                         /\ endpointCapabilities' = endpointCapabilities
                         /\ brokerNegotiatedRole' = brokerNegotiatedRole
                         /\ brokerNegotiatedProfile' = brokerNegotiatedProfile]_vars

C4_Witness ==
    /\ brokerState = ErrorState
    /\ brokerNegotiatedRole = NoRole
    /\ \E k \in 1..Len(trace) :
           /\ trace[k][1] = "reply"
           /\ trace[k][3].vector = "ClientBindReply"
           /\ trace[k][3].negotiatedRole = Controller
           /\ trace[k][3].negotiatedProfile = 512
           /\ Threw(trace, trace[k][2],
                    [domain |-> "negotiation",
                     code |-> "NEGOTIATION_PROFILE_MISMATCH",
                     statusCode |-> NoNum])

\* ------------------------------------------------------------------ C5
Opened(tr) == \E k \in 1..Len(tr) : tr[k][1] = "open"

ConnectReturns(tr) == SelectSeq(tr, LAMBDA e : e[1] = "connectReturn")

\* C5: connect() is idempotent and coalesces concurrent callers.  A call on a
\* connected client opens no socket and returns; a call made while another
\* connect is in flight opens no second socket and does not complete at the
\* call: it completes with the outcome of the attempt in flight.
C5_ConnectCoalesces ==
    [][Called(trace', "connect") =>
         /\ ( /\ connectPromise = 0
              /\ socket # 0
              /\ sockets[socket].st = "open" )
            => /\ ~Opened(trace')
               /\ Len(ConnectReturns(trace')) = 1
               /\ ConnectReturns(trace')[1][3]
         /\ connectPromise # 0
            => /\ ~Opened(trace')
               /\ ConnectReturns(trace') = <<>>]_vars

\* ------------------------------------------------------------------ C6
\* C6: connect() resolves only after the socket is ready and the
\* postConnectAuth hook has completed: a call that resolves does so either in
\* the step in which the attempt finalizes (the connect event) or on a client
\* whose socket is open with no attempt in flight.  When an attempt finalizes
\* the state is TcpConnected and the heartbeat timer is armed (for a positive
\* heartbeat interval).  When TLS authorization fails or the hook throws, the
\* socket is destroyed, the callers of the attempt are rejected and the state
\* does not become TcpConnected.
C6_ConnectResolvesWhenReady ==
    [][/\ \A k \in 1..Len(trace') :
            (trace'[k][1] = "connectReturn" /\ trace'[k][3]) =>
               \/ \E j \in 1..k : trace'[j][1] = "connect"
               \/ /\ connectPromise = 0
                  /\ socket # 0
                  /\ sockets[socket].st = "open"
       /\ (\E k \in 1..Len(trace') : trace'[k][1] = "connect") =>
            /\ brokerState' = TcpConnected
            /\ cfg.heartbeatIntervalMs > 0 => heartbeatTimer'
       /\ \A k \in 1..Len(trace') :
            trace'[k][1] = "destroy" =>
               /\ sockets'[trace'[k][2]].st \notin {"connecting", "open"}
               /\ \A c \in CallerIds :
                     (callers[c] = "waiting" /\ connectPromise = trace'[k][2]) =>
                        \E j \in 1..Len(trace') :
                            /\ trace'[j][1] = "connectReturn"
                            /\ trace'[j][2] = c
                            /\ ~trace'[j][3]
               /\ \A j \in 1..Len(trace') :
                     trace'[j][1] = "brokerState" => trace'[j][2] # TcpConnected]_vars

\* ------------------------------------------------------------------ C7
\* The waiters a step settled, by id, in the order it settled them.
Settled(tr) ==
    LET es == SelectSeq(tr, LAMBDA e : e[1] \in {"resolve", "reject"})
    IN [k \in 1..Len(es) |-> es[k][2]]

\* C7: a waiter is settled at most once.  Every resolve or reject is of a
\* waiter that was pending in the table when the step began, no step settles
\* a waiter twice, and a settled waiter is no longer in the table and has no
\* timer left, so that no later packet, timeout or disconnect can settle it
\* again.  (An id in the model may pass to a waiter created afterwards.)
C7_SettledAtMostOnce ==
    [][LET ids == Settled(trace')
       IN /\ \A k \in 1..Len(ids) :
                /\ \E j \in 1..Len(waiters) :
                      /\ waiters[j].id = ids[k]
                      /\ waiters[j] \notin SeqToSet(waiters')
                /\ ids[k] \in waiterTimers' => ids[k] \in WaiterIdsOf(waiters')
          /\ \A j, k \in 1..Len(ids) : ids[j] = ids[k] => j = k
          /\ \A j, k \in 1..Len(waiters') :
                waiters'[j].id = waiters'[k].id => j = k]_vars

C7_Witness ==
    /\ Len(waiters) = 1
    /\ \E k \in 1..Len(trace) :
           /\ trace[k][1] = "resolve"
           /\ trace[k][2] \notin WaiterIdsOf(waiters)
    /\ chunk.sock # 0

\* ------------------------------------------------------------------ C8
\* C8: when the timeout of a pending waiter expires, that waiter is rejected
\* with RdmnetError(domain = timeout, code = RESPONSE_TIMEOUT) and leaves the
\* table, every other waiter stays in place with its timer, and a packet can
\* only resolve waiters that are in the table, so not the one that timed out.
C8_TimeoutRejects ==
    [][/\ \A k \in 1..Len(trace') :
            trace'[k][1] = "timer" =>
               LET id == trace'[k][2]
               IN /\ id \in WaiterIdsOf(waiters)
                  /\ \E j \in 1..Len(trace') :
                        /\ trace'[j][1] = "reject"
                        /\ trace'[j][2] = id
                        /\ trace'[j][3] = [domain |-> "timeout",
                                           code |-> "RESPONSE_TIMEOUT",
                                           statusCode |-> NoNum]
                  /\ waiters' = SelectSeq(waiters, LAMBDA wt : wt.id # id)
                  /\ waiterTimers' = waiterTimers \ {id}
                  /\ Len(Settled(trace')) = 1
       /\ \A k \in 1..Len(trace') :
            trace'[k][1] = "resolve" =>
               \E j \in 1..Len(waiters) :
                   /\ waiters[j].id = trace'[k][2]
                   /\ waiters[j].id \in waiterTimers]_vars

C8_Witness ==
    /\ Len(waiters) = 1
    /\ \E k \in 1..Len(trace) :
           /\ trace[k][1] = "timer"
           /\ trace[k][2] \notin WaiterIdsOf(waiters)
           /\ waiters[1].tag = 1
           /\ waiters[1].id > trace[k][2]

\* ------------------------------------------------------------------ C9
SocketClosed(tr) == \E k \in 1..Len(tr) : tr[k][1] = "disconnect"

\* C9: a manual disconnect() and a socket close each reject every pending
\* waiter with a plain error ("RDMnet client disconnected", "RDMnet socket
\* closed"), cancel its timeout timer, and leave the waiter table empty.
C9_CloseRejectsAll ==
    [][(Called(trace', "disconnect") \/ SocketClosed(trace')) =>
         /\ waiters' = <<>>
         /\ waiterTimers' = {}
         /\ \A k \in 1..Len(waiters) :
               \E j \in 1..Len(trace') :
                   /\ trace'[j][1] = "reject"
                   /\ trace'[j][2] = waiters[k].id
                   /\ trace'[j][3] =
                        [domain |-> "none",
                         code |-> IF Called(trace', "disconnect")
                                  THEN "RDMnet client disconnected"
                                  ELSE "RDMnet socket closed",
                         statusCode |-> NoNum]]_vars

C9_Witness ==
    /\ waiters = <<>>
    /\ waiterTimers = {}
    /\ SocketClosed(trace)
    /\ Len(Settled(trace)) = 2

\* ----------------------------------------------------------------- C10
\* C10: while the last user call was a manual disconnect (manualClose is
\* set) no reconnect timer is armed, and no step other than a user call
\* opens a socket or emits a reconnecting event, whatever socket events
\* arrive.
C10_NoReconnectAfterManualDisconnect ==
    [][/\ manualClose' => ~reconnectTimer'
       /\ Called(trace', "disconnect") => manualClose' /\ ~reconnectTimer'
       /\ (manualClose /\ \A k \in 1..Len(trace') : trace'[k][1] # "call") =>
            /\ manualClose'
            /\ \A k \in 1..Len(trace') :
                   trace'[k][1] \notin {"open", "reconnecting"}]_vars

C10_Witness ==
    /\ manualClose
    /\ cfg.autoReconnect
    /\ reconnectAttempts > 0
    /\ ~reconnectTimer
    /\ \E k \in 1..Len(trace) : trace[k][1] = "disconnect"

\* ------------------------------------------------------- C11: reconnect
\* Automatic reconnects with the delay options the constructor takes (lines
\* 494-495): the defaults, and a ceiling below twice the initial delay.
LowReconnectMaxDelayMs == 750

ReconnectConfigs ==
    [autoReconnect : {TRUE}, transport : {"tcp"},
     requireTlsAuthorization : {FALSE}, postConnectAuth : BOOLEAN,
     heartbeatIntervalMs : {15000},
     reconnectDelayMs : {DefaultReconnectDelayMs},
     reconnectMaxDelayMs : {DefaultReconnectMaxDelayMs, LowReconnectMaxDelayMs},
     maxBufferBytes : {DefaultMaxBufferBytes},
     heartbeatVector : {RootBroker}]

SpecReconnect == InitWith(ReconnectConfigs) /\ [][NextConnect]_vars

Reconnectings(tr) == SelectSeq(tr, LAMBDA e : e[1] = "reconnecting")

Has(tr, name) == \E k \in 1..Len(tr) : tr[k][1] = name

\* The delay the specification gives for retry number n.
BackoffDelay(n) ==
    LET d == cfg.reconnectDelayMs * (2 ^ (n - 1))
    IN IF d < cfg.reconnectMaxDelayMs THEN d ELSE cfg.reconnectMaxDelayMs

\* C11: an unexpected socket close with autoReconnect enabled leaves exactly
\* one reconnect pending: if none was pending, the close emits
\* reconnecting(attempt, delayMs) and arms the timer, and a close that finds
\* a reconnect pending leaves that one in place.  Every reconnecting event
\* carries delayMs = min(reconnectDelayMs * 2^(attempt-1), reconnectMaxDelayMs)
\* and attempt = one more than the count before it; the count is 0 at the
\* start and after a successful connect and changes at no other time, so the
\* first retry is attempt 1 and each further failed attempt adds exactly 1.
\* A timer is armed only when none is pending (at most one), and a pending
\* timer ends only by firing, which calls connect(), by disconnect(), or by
\* a successful connect.
C11_ReconnectBackoff ==
    [][LET rs == Reconnectings(trace')
       IN /\ (SocketClosed(trace') /\ ~manualClose /\ cfg.autoReconnect) =>
                /\ reconnectTimer'
                /\ ~reconnectTimer => Len(rs) = 1
          /\ Len(rs) <= 1
          /\ \A k \in 1..Len(rs) :
                /\ ~reconnectTimer \/ Has(trace', "timerConnect")
                /\ reconnectTimer'
                /\ rs[k][2] = reconnectAttempts + 1
                /\ reconnectAttempts' = rs[k][2]
                /\ rs[k][3] = BackoffDelay(rs[k][2])
          /\ Has(trace', "connect") => reconnectAttempts' = 0 /\ ~reconnectTimer'
          /\ (Len(rs) = 0 /\ ~Has(trace', "connect")) =>
                reconnectAttempts' = reconnectAttempts
          /\ (reconnectTimer /\ ~reconnectTimer') =>
                \/ Has(trace', "timerConnect")
                \/ Called(trace', "disconnect")
                \/ Has(trace', "connect")
          /\ Has(trace', "timerConnect") =>
                \/ Opened(trace')
                \/ connectPromise # 0
                \/ isConnected(World)]_vars

\* A second consecutive failed attempt was announced, with its delay cut to
\* the configured ceiling.
C11_Witness ==
    /\ reconnectTimer
    /\ reconnectAttempts = 2
    /\ cfg.reconnectMaxDelayMs < cfg.reconnectDelayMs * 2
    /\ \E k \in 1..Len(trace) :
          /\ trace[k][1] = "reconnecting"
          /\ trace[k][2] = 2
          /\ trace[k][3] = cfg.reconnectMaxDelayMs

\* ------------------------------------------- C12, C13: the byte stream
\* The 'data' handler on chunks of bytes, with user waiters, under the
\* default buffer cap and under a cap that holds one short packet.
LowMaxBufferBytes == 40

StreamConfigs ==
    {[DefaultConfig EXCEPT !.maxBufferBytes = b] :
        b \in {DefaultMaxBufferBytes, LowMaxBufferBytes}}

NextStream ==
    \/ Connect(1)
    \/ \E tag \in Tags : WaitForMessage(tag)
    \/ \E s \in SocketIds : SocketReady(s, TRUE)
    \/ \E s \in SocketIds : SocketClose(s)
    \/ \E s \in SocketIds, bytes \in Chunks : DataChunk(s, bytes)

SpecStream == InitWith(StreamConfigs) /\ [][NextStream]_vars

ConnectedStates == {TcpConnected, Connecting, Connected, Binding, Bound}

FramingErrors(tr) ==
    \E k \in 1..Len(tr) :
        tr[k][1] = "error" /\ tr[k][2] = "STREAM_FRAMING_ERROR"

\* C12: when the reassembly buffer grows beyond maxBufferBytes, or the stream
\* holds framing corruption, the client emits an RdmnetError with code
\* STREAM_FRAMING_ERROR (domain transport) and tears the connection down:
\* after the step the client is not connected, the broker state is none of
\* the connected states, and the buffer is no longer than the cap.
C12_FramingErrorTearsDown ==
    [][FramingErrors(trace') =>
         /\ \E k \in 1..Len(trace') : trace'[k] = FramingError
         /\ socket' = 0
         /\ brokerState' \notin ConnectedStates
         /\ Len(streamBuffer') <= cfg.maxBufferBytes]_vars

DataOf(tr) == SelectSeq(tr, LAMBDA e : e[1] = "data")

Messages(tr) == SelectSeq(tr, LAMBDA e : e[1] = "message")

DecodeErrors(tr) ==
    SelectSeq(tr, LAMBDA e : e[1] = "error" /\ e[2] \in
        {"BROKER_DECODE_ERROR", "RPT_DECODE_ERROR", "EPT_DECODE_ERROR",
         "LLRP_DECODE_ERROR"})

\* The position in tr of its k-th 'message' event.
RECURSIVE MessageAt(_, _, _)
MessageAt(tr, k, from) ==
    IF tr[from][1] = "message"
    THEN IF k = 1 THEN from ELSE MessageAt(tr, k - 1, from + 1)
    ELSE MessageAt(tr, k, from + 1)

\* The domain and code the specification gives for a malformed payload.
ExpectedDecodeError(vector) ==
    CASE vector = "MalformedBroker" -> <<"error", "BROKER_DECODE_ERROR", "broker">>
      [] vector = "MalformedRpt" -> <<"error", "RPT_DECODE_ERROR", "rpt">>
      [] vector = "MalformedEpt" -> <<"error", "EPT_DECODE_ERROR", "ept">>
      [] vector = "MalformedLlrp" -> <<"error", "LLRP_DECODE_ERROR", "llrp">>

\* C13: a payload decode error for one inbound packet is reported on the
\* error event as an RdmnetError of the matching domain and *_DECODE_ERROR
\* code, leaves the socket, the heartbeat and the broker state as they were,
\* and keeps no packet from its listeners and waiters: for every chunk that
\* frames, each of its packets, malformed or not, before or after a malformed
\* one, gets its 'message' event in order, each waiter that matches one of
\* them is resolved, and exactly the malformed packets are preceded by their
\* error event.
C13_DecodeErrorIsLocal ==
    [][\A d \in 1..Len(DataOf(trace')) :
         LET merged == streamBuffer \o DataOf(trace')[d][3]
             extracted == extractRdmnetPackets(merged)
         IN (Len(merged) <= cfg.maxBufferBytes /\ extracted.ok) =>
              LET ps == [k \in 1..Len(extracted.packets) |->
                            DecodedPacket(extracted.packets[k])]
                  ms == Messages(trace')
                  bad == {k \in 1..Len(ps) : ps[k].vector \in MalformedVectors}
              IN /\ Len(ms) = Len(ps)
                 /\ \A k \in 1..Len(ps) :
                       /\ ms[k][2] = ps[k].vector
                       /\ ms[k][3] = ps[k].tag
                       /\ k \in bad =>
                            trace'[MessageAt(trace', k, 1) - 1]
                                = ExpectedDecodeError(ps[k].vector)
                 /\ Len(DecodeErrors(trace')) = Cardinality(bad)
                 /\ ~FramingErrors(trace')
                 /\ socket' = socket /\ sockets' = sockets
                 /\ heartbeatTimer' = heartbeatTimer
                 /\ brokerState' = brokerState
                 /\ \A j \in 1..Len(waiters) :
                       IF \E k \in 1..Len(ps) : Matches(waiters[j], ps[k])
                       THEN /\ waiters[j] \notin SeqToSet(waiters')
                            /\ \E e \in 1..Len(trace') :
                                  /\ trace'[e][1] = "resolve"
                                  /\ trace'[e][2] = waiters[j].id
                       ELSE waiters[j] \in SeqToSet(waiters')]_vars

\* A chunk held a malformed packet and then a packet that resolved a waiter,
\* on a socket that stays open.
C13_Witness ==
    /\ isConnected(World)
    /\ \E i, j \in 1..Len(trace) :
          /\ i < j
          /\ trace[i][1] = "error"
          /\ trace[i][2] = "RPT_DECODE_ERROR"
          /\ trace[j][1] = "resolve"

\* ------------------------------------------------- C14: rdmTransaction
\* RDM transactions over a connection: calls, RPT packets in chunks (RDM
\* responses of every sequence, RPT status messages, undecodable RPT
\* payloads), waiter timeouts and socket events.
RptPackets ==
    RdmResponses \cup RptStatuses
        \cup {pk \in MalformedPackets : pk.vector = "MalformedRpt"}

NextRdm ==
    \/ Connect(1)
    \/ \E t \in TxIds : RdmTransaction(t)
    \/ \E s \in SocketIds : SocketReady(s, TRUE)
    \/ \E s \in SocketIds : SocketClose(s)
    \/ \E s \in SocketIds, packet \in RptPackets, more \in BOOLEAN :
            DataPacket(s, packet, more)
    \/ \E id \in WaiterIds : WaiterTimeout(id)

SpecRdm == InitWith({DefaultConfig}) /\ [][NextRdm]_vars

\* Transaction t awaits its response: its waiter is in the table.
Awaiting(t) ==
    /\ transactions[t].pc \in {"write", "wait"}
    /\ transactions[t].reply.st = "none"
    /\ \E k \in 1..Len(waiters) :
          waiters[k].kind = "rdm" /\ waiters[k].id = transactions[t].waitId

RdmReturns(tr) == SelectSeq(tr, LAMBDA e : e[1] = "rdmReturn")

\* C14: rdmTransaction correlates by sequence equality only.  When a packet
\* is dispatched, a transaction that awaits its response is resolved with
\* that packet exactly if the packet is an RPT RdmResponse whose sequence is
\* the one allocated for the call; every other awaiting transaction stays
\* pending with its waiter in place, whatever the order of arrival, and a
\* response whose sequence belongs to no pending transaction resolves none.
\* A transaction returns the response embedded in the packet that resolved
\* it, and transactions that await at the same time hold distinct sequences.
C14_RdmTransactionCorrelates ==
    [][/\ \A m \in 1..Len(Messages(trace')), t \in TxIds :
            LET e == Messages(trace')[m]
                own == e[2] = "RdmResponse" /\ e[4] = transactions[t].seq
            IN Awaiting(t) =>
                 IF own
                 THEN \/ /\ transactions'[t].reply.st = "ok"
                         /\ transactions'[t].reply.pkt.tag = e[3]
                         /\ transactions'[t].reply.pkt.sequence = transactions[t].seq
                      \/ \E k \in 1..Len(trace') :
                            trace'[k] = <<"rdmReturn", t, e[3]>>
                 ELSE /\ transactions'[t] = transactions[t]
                      /\ \E k \in 1..Len(waiters') :
                            waiters'[k].id = transactions[t].waitId
       /\ \A k \in 1..Len(RdmReturns(trace')) :
            LET e == RdmReturns(trace')[k]
                x == transactions[e[2]]
            IN /\ x.pc = "wait"
               /\ \/ /\ x.reply.st = "ok"
                     /\ x.reply.pkt.vector = "RdmResponse"
                     /\ x.reply.pkt.sequence = x.seq
                     /\ x.reply.pkt.tag = e[3]
                  \/ /\ x.reply.st = "none"
                     /\ \E m \in 1..Len(Messages(trace')) :
                           Messages(trace')[m] =
                               <<"message", "RdmResponse", e[3], x.seq>>
       /\ \A t1, t2 \in TxIds :
            (t1 # t2 /\ transactions'[t1].pc # "idle"
                     /\ transactions'[t2].pc # "idle") =>
                transactions'[t1].seq # transactions'[t2].seq]_vars

\* Two transactions were pending and the response to the later one arrived
\* first: the later call has returned it, the earlier one still waits.
C14_Witness ==
    \E t1, t2 \in TxIds :
        /\ transactions[t1].pc = "wait"
        /\ transactions[t1].reply.st = "none"
        /\ transactions[t1].seq = U32(1)
        /\ \E k \in 1..Len(trace), r \in Tags : trace[k] = <<"rdmReturn", t2, r>>
        /\ \E k \in 1..Len(trace) :
              /\ trace[k][1] = "message"
              /\ trace[k][2] = "RdmResponse"
              /\ trace[k][4] = U32(2)

\* ------------------------------------------------ C15: stopBrokerSession
Writes(tr) == SelectSeq(tr, LAMBDA e : e[1] = "write")

BrokerFieldsReset ==
    /\ brokerClientId = NoNum
    /\ brokerNegotiatedRole = NoRole
    /\ brokerNegotiatedProfile = NoNum
    /\ endpointCapabilities = [e \in EndpointIds |-> NoCap]

\* C15: stopBrokerSession on a connected client sends one Broker Disconnect
\* whose sequence is freshly allocated, and once that write has completed
\* (at the call on an open socket, when the socket becomes ready otherwise)
\* the broker state is TcpConnected, client id, negotiated role and
\* negotiated profile are null and the endpoint capability cache is empty.
\* On a client that is not connected the call sends nothing and changes
\* nothing.
C15_StopBrokerSession ==
    [][/\ Called(trace', "stopBrokerSession") =>
            IF isConnected(World)
            THEN /\ Writes(trace') =
                        <<<<"write", "Disconnect",
                            nextRdmnetSequence(rdmnetSequence)>>>>
                 /\ rdmnetSequence' = nextRdmnetSequence(rdmnetSequence)
                 /\ sockets[socket].st = "open" =>
                        brokerState' = TcpConnected /\ BrokerFieldsReset'
                 /\ sockets[socket].st # "open" => stopWrite' = socket
            ELSE /\ Writes(trace') = <<>>
                 /\ trace' = <<<<"call", "stopBrokerSession">>>>
                 /\ UNCHANGED <<cfg, socket, sockets, connectPromise,
                                manualClose, reconnectAttempts, reconnectTimer,
                                heartbeatTimer, waiters, waiterTimers,
                                rdmnetSequence, brokerState, brokerClientId,
                                brokerNegotiatedRole, brokerNegotiatedProfile,
                                endpointCapabilities, sessions, callers,
                                reconnectAwait, stopWrite, chunk, streamBuffer,
                                transactions, advertWrite, heartbeatWrites>>
       /\ (stopWrite # 0 /\ stopWrite' = 0 /\ ~Has(trace', "stopThrow")) =>
            brokerState' = TcpConnected /\ BrokerFieldsReset']_vars

\* stopBrokerSession was called on a bound session: the Disconnect went out
\* and the state fell back to TcpConnected with the fields cleared.
C15_Witness ==
    /\ Called(trace, "stopBrokerSession")
    /\ Wrote(trace, "Disconnect")
    /\ \E k \in 1..Len(trace) : trace[k] = <<"brokerState", TcpConnected>>
    /\ brokerState = TcpConnected
    /\ BrokerFieldsReset

\* --------------------------------------- C16: close and disconnect reset
\* C16: a socket close and a manual disconnect(), from whatever broker state,
\* leave the client in state Disconnected with client id, negotiated role and
\* negotiated profile null and the endpoint capability cache empty.
C16_CloseResetsSession ==
    [][(Called(trace', "disconnect") \/ SocketClosed(trace')) =>
         /\ brokerState' = Disconnected
         /\ BrokerFieldsReset'
         /\ socket' = 0]_vars

\* A socket closed under a session that had left Disconnected: the close
\* changed the broker state to Disconnected and the fields are cleared.
C16_Witness ==
    /\ SocketClosed(trace)
    /\ \E k \in 1..Len(trace) : trace[k] = <<"brokerState", Disconnected>>
    /\ brokerState = Disconnected
    /\ BrokerFieldsReset

\* ------------------------------------------ C17: endpoint capabilities
\* The three callers of updateEndpointCapabilities: advertisements the user
\* sends, advertisements the peer sends, and a broker session that binds.
CapsPackets ==
    {a \in Advertisements :
        a.negotiatedRole = Controller /\ a.profiles # <<>>}
        \cup {Packet("ConnectReply", U32(q), StatusOk, 98, 0, NoRole, NoNum, 0) :
                q \in 1..MaxSeq}
        \cup {Packet("ClientBindReply", U32(q), StatusOk, NoNum,
                     DefaultEndpointId, Controller, pf, 0) :
                q \in 1..MaxSeq, pf \in {256, NoNum}}

NextCaps ==
    \/ Connect(1)
    \/ \E profiles \in {<<>>, <<65792, 256>>} :
            StartBrokerSession(1, TRUE, FALSE, Controller, profiles)
    \/ \E role \in BrokerClientRole,
          profiles \in {<<512, 256, 512>>, <<65792, 256>>} :
            SendEndpointAdvertisement(DefaultEndpointId, role, profiles)
    \/ \E s \in SocketIds : SocketReady(s, TRUE)
    \/ \E s \in SocketIds : SocketClose(s)
    \/ \E s \in SocketIds, packet \in CapsPackets, more \in BOOLEAN :
            DataPacket(s, packet, more)

SpecCaps == InitWith({DefaultConfig}) /\ [][NextCaps]_vars

\* The elements of a finite set of numbers in ascending order.
RECURSIVE Ascending(_)
Ascending(S) ==
    IF S = {} THEN <<>>
    ELSE LET top == CHOOSE x \in S : \A y \in S : y <= x
         IN Append(Ascending(S \ {top}), top)

\* The entry the specification stores for an update with these arguments.
ExpectedCap(u) ==
    [role |-> u[3],
     profiles |-> Ascending({u[4][k] % Limb : k \in 1..Len(u[4])}),
     source |-> u[5]]

\* The capability cache before the j-th entry of the trace, starting from
\* cache: every update recorded before j has stored its entry.
RECURSIVE CapsAt(_, _, _)
CapsAt(cache, tr, j) ==
    IF j <= 1 THEN cache
    ELSE LET before == CapsAt(cache, tr, j - 1)
             u == tr[j - 1]
         IN IF u[1] = "updateEndpointCapabilities"
            THEN [before EXCEPT ![u[2]] = ExpectedCap(u)]
            ELSE before

\* C17: an endpoint capability update (local advertisement sent, remote
\* EndpointAdvertisement received, broker bind succeeded) emits
\* endpointCapabilitiesUpdated for its endpoint if and only if the endpoint
\* had no entry or the role, the provenance or the normalized profile list
\* of the new entry differs from the previous entry; the event is emitted at
\* no other time; and the profile list stored is the ascending list of the
\* distinct values of the given profiles masked to 16 bits.
C17_CapabilityChangeEvent ==
    [][/\ \A j \in 1..Len(trace') :
            trace'[j][1] = "updateEndpointCapabilities" =>
                LET u == trace'[j]
                    prev == CapsAt(endpointCapabilities, trace', j)[u[2]]
                    next == ExpectedCap(u)
                    changed == \/ prev = NoCap
                               \/ prev.role # next.role
                               \/ prev.source # next.source
                               \/ prev.profiles # next.profiles
                    emitted == /\ j < Len(trace')
                               /\ trace'[j + 1] =
                                     <<"endpointCapabilitiesUpdated", u[2]>>
                IN changed <=> emitted
       /\ \A j \in 1..Len(trace') :
            trace'[j][1] = "endpointCapabilitiesUpdated" =>
                /\ j > 1
                /\ trace'[j - 1][1] = "updateEndpointCapabilities"
                /\ trace'[j - 1][2] = trace'[j][2]
       /\ (Has(trace', "updateEndpointCapabilities") /\ ~SocketClosed(trace')) =>
            endpointCapabilities' =
                CapsAt(endpointCapabilities, trace', Len(trace') + 1)
       /\ \A e \in EndpointIds :
            LET pl == endpointCapabilities'[e].profiles
            IN /\ \A k \in 1..Len(pl) : pl[k] \in 0..(Limb - 1)
               /\ \A k \in 1..(Len(pl) - 1) : pl[k] < pl[k + 1]]_vars

\* An advertisement repeated an entry with its profiles in another order and
\* with a repetition: the entry stays as it was and no event is emitted.
C17_Witness ==
    \E j \in 1..Len(trace) :
        /\ trace[j][1] = "updateEndpointCapabilities"
        /\ trace[j][4] = <<512, 256, 512>>
        /\ endpointCapabilities[trace[j][2]].profiles = <<256, 512>>
        /\ \A k \in 1..Len(trace) : trace[k][1] # "endpointCapabilitiesUpdated"

\* ------------------------------------------------------- C18: heartbeat
\* The heartbeat under both heartbeat vectors the constructor may be given
\* (line 497): a connection, a broker session that binds, manual disconnects,
\* socket events and interval ticks.
HeartbeatConfigs ==
    {[DefaultConfig EXCEPT !.heartbeatVector = v] : v \in {RootBroker, RootLlrp}}

HeartbeatPackets ==
    {pk \in ConnectReplies \cup BindReplies :
        pk.statusCode = StatusOk /\ pk.clientId \in {98, NoNum}
            /\ pk.negotiatedProfile \in {256, NoNum}
            /\ pk.negotiatedRole \in {Controller, NoRole}}

NextHeartbeat ==
    \/ Connect(1)
    \/ Disconnect
    \/ StartBrokerSession(1, TRUE, FALSE, Controller, <<>>)
    \/ \E s \in SocketIds : SocketReady(s, TRUE)
    \/ \E s \in SocketIds : SocketError(s)
    \/ \E s \in SocketIds : SocketClose(s)
    \/ \E s \in SocketIds, packet \in HeartbeatPackets, more \in BOOLEAN :
            DataPacket(s, packet, more)
    \/ HeartbeatTick

SpecHeartbeat == InitWith(HeartbeatConfigs) /\ [][NextHeartbeat]_vars

HeartbeatWrites(tr) ==
    SelectSeq(tr, LAMBDA e : e[1] = "write" /\ e[2] \in {"Heartbeat", "Root"})

\* C18: while the client is connected, a heartbeat tick sends exactly one
\* packet: in broker state Connected or Bound a Broker Heartbeat that carries
\* a freshly allocated RDMnet sequence, in every other state a root-layer
\* packet of the configured heartbeat vector with no data; a tick on a client
\* that is not connected sends nothing.  disconnect() and a socket close
\* cancel the heartbeat timer, and heartbeats are written by ticks of a
\* connected client only, so none is sent after either.
C18_Heartbeat ==
    [][/\ Has(trace', "tick") =>
            IF isConnected(World)
            THEN /\ Len(Writes(trace')) = 1
                 /\ IF brokerState \in {Connected, Bound}
                    THEN /\ Writes(trace')[1] =
                                <<"write", "Heartbeat",
                                  nextRdmnetSequence(rdmnetSequence)>>
                         /\ rdmnetSequence' = nextRdmnetSequence(rdmnetSequence)
                    ELSE LET root == Writes(trace')[1]
                             parsed == parseRdmnetPacket(root[3])
                         IN /\ root[2] = "Root"
                            /\ parsed.ok
                            /\ parsed.packet.vector = U32(cfg.heartbeatVector)
                            /\ parsed.packet.data = <<>>
                            /\ rdmnetSequence' = rdmnetSequence
            ELSE /\ Writes(trace') = <<>>
                 /\ rdmnetSequence' = rdmnetSequence
       /\ (Called(trace', "disconnect") \/ SocketClosed(trace')) =>
            ~heartbeatTimer'
       /\ HeartbeatWrites(trace') # <<>> =>
            /\ Has(trace', "tick")
            /\ heartbeatTimer
            /\ isConnected(World)]_vars

\* A tick in state Bound has sent a Broker Heartbeat.
C18_Witness ==
    /\ Has(trace, "tick")
    /\ Wrote(trace, "Heartbeat")
    /\ brokerState = Bound
    /\ heartbeatTimer

\* ------------------------------------------------- C19: stream reframing
\* extractRdmnetPackets as a function of its argument.  The argument is drawn
\* in the initial state: up to MaxPackets packets built by buildRdmnetPacket,
\* followed by the first k bytes of one more packet, k less than its length.
MaxPackets == 2      \* whole packets in one stream
MaxPayload == 3      \* payload bytes of a packet

HighVector == <<65535, 65534>>

ValidPackets ==
    {[vector |-> v, data |-> d, cid |-> Cid] :
        v \in {U32(RootBroker), HighVector},
        d \in {<<>>, [i \in 1..MaxPayload |-> i]}}

BytesOf(p) == buildRdmnetPacket(p.vector, p.data, p.cid)

RECURSIVE Concat(_)
Concat(ps) == IF ps = <<>> THEN <<>> ELSE BytesOf(Head(ps)) \o Concat(Tail(ps))

PacketLists == UNION {[1..n -> ValidPackets] : n \in 0..MaxPackets}

Partials ==
    UNION {{subarray(BytesOf(p), 0, k) : k \in 0..(Len(BytesOf(p)) - 1)} :
              p \in ValidPackets}

ValidStreams ==
    {[packets |-> ps, partial |-> part, bytes |-> Concat(ps) \o part] :
        ps \in PacketLists, part \in Partials}

\* One call of extractRdmnetPackets on the buffer, which keeps the remainder
\* as the data handler does.
Extract ==
    LET extracted == extractRdmnetPackets(streamBuffer)
    IN /\ streamBuffer' = IF extracted.ok THEN extracted.remainder ELSE streamBuffer
       /\ trace' = <<<<"extract", extracted>>>>
       /\ UNCHANGED <<cfg, socket, sockets, connectPromise, manualClose,
                      reconnectAttempts, reconnectTimer, heartbeatTimer, waiters,
                      waiterTimers, rdmnetSequence, brokerState, brokerClientId,
                      brokerNegotiatedRole, brokerNegotiatedProfile,
                      endpointCapabilities, sessions, callers, reconnectAwait,
                      stopWrite, chunk, transactions, advertWrite,
                      heartbeatWrites, options, universes, flushes, objects,
                      discovery, artnet, sender>>

SpecExtract ==
    /\ InitWithStream({DefaultConfig}, {s.bytes : s \in ValidStreams})
    /\ [][Extract]_vars

\* The packet record parseRdmnetPacket returns for a packet built from p.
PacketOf(p) ==
    [vector |-> p.vector, cid |-> p.cid, data |-> p.data, raw |-> BytesOf(p)]

\* C19: for a stream that is the concatenation of n valid root-layer packets
\* followed by the first k bytes of another (k = 0 included),
\* extractRdmnetPackets does not throw and returns exactly those n packets, in
\* order, with a remainder of exactly those k bytes.
C19_ExtractTotal ==
    [][Has(trace', "extract") =>
         \A s \in ValidStreams :
            s.bytes = streamBuffer =>
                LET extracted == trace'[1][2]
                IN /\ extracted.ok
                   /\ Len(extracted.packets) = Len(s.packets)
                   /\ \A i \in 1..Len(s.packets) :
                         extracted.packets[i] = PacketOf(s.packets[i])
                   /\ extracted.remainder = s.partial]_vars

\* Two whole packets were returned and a tail holding a complete header but
\* not its whole packet was kept.
C19_Witness ==
    /\ Has(trace, "extract")
    /\ trace[1][2].ok
    /\ Len(trace[1][2].packets) = MaxPackets
    /\ trace[1][2].packets[1] # trace[1][2].packets[2]
    /\ Len(trace[1][2].remainder) >= HeaderSize
    /\ streamBuffer = trace[1][2].remainder

\* -------------------------------------------------- C20: DMXController.flush
\* A controller with a sender factory: universes are written, flushed and
\* closed in any order, and each sendRaw or sendSync settles either way.
FlushOptionSets ==
    {o \in ControllerOptionSets :
        o.sendSync \in {{}, {MaxUniverses}, UniverseIds} /\ ~o.senderChecksId}

NextFlush ==
    \/ \E id \in UniverseIds : AddUniverse(id)
    \/ \E id \in UniverseIds : SetChannel(id, Num(1), Num(255))
    \/ \E f \in FlushIds, id \in {1, AllUniverses}, force \in BOOLEAN :
            Flush(f, id, force)
    \/ \E f \in FlushIds, ok \in BOOLEAN : SendRawSettles(f, ok)
    \/ \E f \in FlushIds, ok \in BOOLEAN : SendSyncSettles(f, ok)
    \/ CloseController

SpecController ==
    /\ InitClient({DefaultConfig}, {<<>>})
    /\ InitController(FlushOptionSets)
    /\ discovery = IdleDiscovery
    /\ InitArtNet({DefaultArtDmx})
    /\ InitSenderWith({0})
    /\ trace = <<>>
    /\ [][NextFlush]_vars

FlushReturns(tr) == SelectSeq(tr, LAMBDA e : e[1] = "flushReturn")

Count(seq, x) == Cardinality({k \in 1..Len(seq) : seq[k] = x})

IsDirty(us, u) == \E i \in 1..Len(us) : us[i].id = u /\ us[i].dirty

\* C20: a flush() without universe id and without force that runs to its
\* return while no other call of the controller intervenes has invoked
\* sendRaw exactly once for each universe that was dirty when it was called
\* and for no other universe, and the flag of every universe it sent is then
\* clear; the controller is left with no dirty universe, so that the same
\* flush made again sends nothing.  Whatever else goes on, a flush without
\* force passes a universe to sendRaw only when its flag is set and clears
\* the flag as it does.
C20_FlushSendsDirtyOnce ==
    [][/\ \A k \in 1..Len(trace') :
            (trace'[k][1] = "sendRaw" /\ ~flushes'[trace'[k][2]].force) =>
                /\ IsDirty(universes, trace'[k][3])
                /\ ~IsDirty(universes', trace'[k][3])
       /\ \A k \in 1..Len(FlushReturns(trace')) :
          LET e == FlushReturns(trace')[k]
              target == e[3]
              force == e[4]
              dirtyAtCall == e[5]
              sent == e[6]
              alone == e[7]
          IN (target = AllUniverses /\ ~force /\ alone) =>
                   /\ \A u \in UniverseIds :
                         Count(sent, u) = IF u \in dirtyAtCall THEN 1 ELSE 0
                   /\ \A i \in 1..Len(universes') : ~universes'[i].dirty]_vars

\* Such a flush returned with one universe sent and a clean one passed over.
C20_Witness ==
    \E k \in 1..Len(trace) :
        /\ trace[k][1] = "flushReturn"
        /\ trace[k][3] = AllUniverses /\ ~trace[k][4] /\ trace[k][7]
        /\ Len(trace[k][6]) = 1
        /\ Len(universes) = MaxUniverses
        /\ \A i \in 1..Len(universes) : ~universes[i].dirty

\* ------------------------------------------------------ C21: one sendSync
\* The universes of the map whose sender has a sendSync method, in insertion
\* order.
WithSync(us) == SelectSeq(us, LAMBDA e : e.id \in options.sendSync)

\* C21: a flush call that returns, made with artSync enabled, that passed at
\* least one universe to sendRaw while a sender with sendSync is in the map
\* and no other call intervened, has made exactly one sendSync call, on the
\* first such sender in insertion order; a flush that sent nothing, or one
\* made with artSync disabled, has made none; and no sendRaw of a flush
\* follows its sendSync.
C21_OneSendSync ==
    [][/\ \A k \in 1..Len(trace') :
            LET e == trace'[k]
            IN /\ (e[1] = "flushReturn" /\ e[7]) =>
                     IF options.artSync /\ e[6] # <<>> /\ WithSync(universes') # <<>>
                     THEN e[8] = <<WithSync(universes')[1].id>>
                     ELSE e[8] = <<>>
               /\ (e[1] \in {"flushReturn", "flushThrow"}) =>
                     ((~options.artSync \/ e[6] = <<>>) => e[8] = <<>>)
               /\ e[1] = "sendRaw" => flushes[e[2]].pc # "sendSync"
               /\ e[1] = "sendRaw" => flushes'[e[2]].synced = <<>>]_vars

\* The same for the calls that scan every universe: flush() and
\* flush(undefined, force).
C21_ScanFlushSendsSync ==
    [][\A k \in 1..Len(trace') :
            LET e == trace'[k]
            IN (e[1] = "flushReturn" /\ e[7] /\ e[3] = AllUniverses) =>
                     IF options.artSync /\ e[6] # <<>> /\ WithSync(universes') # <<>>
                     THEN e[8] = <<WithSync(universes')[1].id>>
                     ELSE e[8] = <<>>]_vars

\* --------------------------------------- C22: one sender for each universe
\* A controller whose universes are referenced and closed in any order, by
\* ids in and out of the range a Universe accepts, with senders that do or do
\* not check the id themselves.
UniverseOptionSets ==
    {o \in ControllerOptionSets : ~o.artSync /\ o.sendSync = {}}

NextUniverses ==
    \/ \E id \in ReferencedIds : AddUniverse(id)
    \/ \E id \in ReferencedIds : SetChannel(id, Num(1), Num(255))
    \/ \E id \in ReferencedIds : SetFrame(id, <<Num(7)>>)
    \/ CloseController

SpecUniverses ==
    /\ InitClient({DefaultConfig}, {<<>>})
    /\ InitController(UniverseOptionSets)
    /\ discovery = IdleDiscovery
    /\ InitArtNet({DefaultArtDmx})
    /\ InitSenderWith({0})
    /\ trace = <<>>
    /\ [][NextUniverses]_vars

Events(tr, name) == SelectSeq(tr, LAMBDA e : e[1] = name)

HasEntry(us, id) == \E i \in 1..Len(us) : us[i].id = id

\* What a reference to universe id does when the id is already in the map:
\* no sender is made and the Universe object of the map is returned.
ReusesUniverse(id) ==
    HasEntry(universes, id) =>
        /\ Events(trace', "createSender") = <<>>
        /\ \E i \in 1..Len(universes) :
              /\ universes[i].id = id
              /\ Events(trace', "return")[1][3] = universes[i].universe
              /\ universes'[i].universe = universes[i].universe
              /\ universes'[i].sender = universes[i].sender
        /\ Len(universes') = Len(universes)

\* What it does when the id is not in the map: exactly one sender is made,
\* and that sender and a fresh Universe are in the map afterwards, so that
\* the next reference finds them and close() closes the sender.
CreatesUniverse(id) ==
    ~HasEntry(universes, id) =>
        /\ Len(Events(trace', "createSender")) <= 1
        /\ \A k \in 1..Len(Events(trace', "createSender")) :
              LET made == Events(trace', "createSender")[k]
              IN \E i \in 1..Len(universes') :
                    /\ universes'[i].id = id
                    /\ universes'[i].sender = made[3]
                    /\ universes'[i].universe = made[3]
                    /\ \A j \in 1..Len(universes) : universes[j].sender # made[3]

\* close() closes the sender of every entry once and empties the map.
ClosesEverySender ==
    /\ universes' = <<>>
    /\ Len(Events(trace', "closeSender")) = Len(universes)
    /\ \A i \in 1..Len(universes) :
          Cardinality({k \in 1..Len(Events(trace', "closeSender")) :
                          Events(trace', "closeSender")[k][3] = universes[i].sender}) = 1

\* C22: every reference to a universe id (addUniverse, universe, setChannel,
\* setFrame) returns the Universe object the map holds for the id and makes
\* no second sender, a first reference makes exactly one sender and keeps
\* it, and close() closes every sender that was made exactly once and
\* empties the map.
C22_OneSenderPerUniverse ==
    [][/\ \A k \in 1..Len(Events(trace', "call")) :
            LET e == Events(trace', "call")[k]
            IN /\ e[2] \in {"addUniverse", "setChannel", "setFrame"} =>
                     ReusesUniverse(e[3]) /\ CreatesUniverse(e[3])
               /\ e[2] = "close" => ClosesEverySender]_vars

\* The same for the ids a Universe accepts, 1 to 63999.
C22_ValidIdsOneSender ==
    [][/\ \A k \in 1..Len(Events(trace', "call")) :
            LET e == Events(trace', "call")[k]
            IN /\ (e[2] \in {"addUniverse", "setChannel", "setFrame"} /\ InRange(e[3])) =>
                     ReusesUniverse(e[3]) /\ CreatesUniverse(e[3])
               /\ e[2] = "close" => ClosesEverySender]_vars

\* ------------------------------------------------ C23: Universe.setChannel
\* One Universe object, got from a controller, and the calls of its methods.
NextFrame ==
    \/ AddUniverse(1)
    \/ \E address \in AddressArgs, value \in ValueArgs :
            UniverseSetChannel(1, address, value)
    \/ UniverseWrite(1, "Universe.clear", 0)
    \/ UniverseConsumeDirty(1)
    \/ UniverseIsDirty(1)

SpecFrame ==
    /\ InitClient({DefaultConfig}, {<<>>})
    /\ InitController({[DefaultOptions EXCEPT !.senderChecksId = FALSE]})
    /\ discovery = IdleDiscovery
    /\ InitArtNet({DefaultArtDmx})
    /\ InitSenderWith({0})
    /\ trace = <<>>
    /\ [][NextFrame]_vars

\* The integer nearest to a number given in tenths (the upper one of two),
\* brought into 0..255.
NearestByte(x) ==
    LET r == CHOOSE n \in -1..1000 :
                 2 * Num(n) - Tenths <= 2 * x /\ 2 * x < 2 * Num(n) + Tenths
    IN IF r < 0 THEN 0 ELSE IF r > 255 THEN 255 ELSE r

ValidAddress(a) == \E n \in 1..FrameSize : a = Num(n)

\* C23: setChannel(a, v) with an integer a in 1..512 writes
\* clamp(round(v), 0, 255) to channel a, leaves every other channel as it
\* was and sets the dirty flag; with any other a it fails with a range error
\* and changes neither the frame nor the flag.  consumeDirty returns the flag
\* and clears it; isDirty returns the flag and changes nothing.
C23_UniverseSetChannel ==
    [][\A k \in 1..Len(Events(trace', "call")) :
          LET e == Events(trace', "call")[k]
              u == universes[e[3]]
              v == universes'[e[3]]
          IN /\ e[2] = "Universe.setChannel" =>
                   IF ValidAddress(e[4])
                   THEN /\ Events(trace', "rangeError") = <<>>
                        /\ Channel(v.data, e[4] \div Tenths) = NearestByte(e[5])
                        /\ \A a \in (DOMAIN u.data \cup DOMAIN v.data) \ {e[4] \div Tenths} :
                              /\ a \in Addresses
                              /\ Channel(v.data, a) = Channel(u.data, a)
                        /\ v.dirty
                   ELSE /\ Events(trace', "rangeError") # <<>>
                        /\ v = u
             /\ e[2] = "Universe.consumeDirty" =>
                   /\ Events(trace', "return")[1][3] = u.dirty
                   /\ ~v.dirty
                   /\ v.data = u.data
             /\ e[2] = "Universe.isDirty" =>
                   /\ Events(trace', "return")[1][3] = u.dirty
                   /\ v = u]_vars

\* Channel 512 was written with a rounded value while channel 1 held
\* another, and the flag went up.
C23_Witness ==
    /\ Len(trace) = 1
    /\ trace[1][1] = "call"
    /\ trace[1][2] = "Universe.setChannel"
    /\ trace[1][4] = Num(FrameSize)
    /\ trace[1][5] = Num(12) + 5
    /\ Channel(universes[1].data, FrameSize) = 13
    /\ Channel(universes[1].data, 1) = 255
    /\ universes[1].dirty

\* ------------------------------------------------- C24: one device found
SpecDiscovery ==
    /\ InitClient({DefaultConfig}, {<<>>})
    /\ InitController({DefaultOptions})
    /\ discovery = IdleDiscovery
    /\ InitArtNet({DefaultArtDmx})
    /\ InitSenderWith({0})
    /\ trace = <<>>
    /\ [][DiscoveryNext]_vars

\* The requests of the given names that the transport was asked.
Requests(d, names) == SelectSeq(d.log, LAMBDA e : e[1] \in names)

IsMute(e, uid) ==
    \/ e = <<"sendMute", uid>>
    \/ e[1] = "send" /\ e[2] = "DISC_MUTE" /\ e[3] = uid

\* The first probe was answered with exactly one UID that decodes.
YieldsOne(d) ==
    /\ Len(d.log) >= 2
    /\ d.log[2][1] = "responses"
    /\ d.log[2][2] = 1

YieldsNone(d) ==
    /\ Len(d.log) >= 2
    /\ d.log[2][1] = "responses"
    /\ d.log[2][2] = 0

\* C24 as it is stated: with muteFound, a discovery whose probe of the whole
\* range yields exactly one decodable UID U makes that one probe and one
\* mute of U and returns the single result {uid = U, muted = true}; one
\* whose probe yields none returns the empty list and mutes nothing.
C24_OneUidMutedTrue ==
    (discovery.pc = "returned" /\ discovery.muteFound) =>
        /\ YieldsOne(discovery) =>
              /\ Requests(discovery, {"sendDiscoveryUniqueBranch"})
                    = <<<<"sendDiscoveryUniqueBranch", UID_MIN, UID_MAX>>>>
              /\ Len(Requests(discovery, {"sendMute", "send"})) >= 1
              /\ IsMute(discovery.log[3], discovery.log[2][3])
              /\ discovery.results = <<[uid |-> discovery.log[2][3], muted |-> TRUE]>>
        /\ YieldsNone(discovery) =>
              /\ discovery.log = <<<<"sendDiscoveryUniqueBranch", UID_MIN, UID_MAX>>,
                                   <<"responses", 0, NoUid>>>>
              /\ discovery.results = <<>>

\* C24, amended: the same, the result being {uid = U, muted = m} where m
\* tells whether the transport acknowledged the mute (sendMute returned
\* true, or send returned a response); exactly one mute is requested.
C24_OneUidMuted ==
    (discovery.pc = "returned" /\ discovery.muteFound) =>
        /\ YieldsOne(discovery) =>
              /\ Requests(discovery, {"sendDiscoveryUniqueBranch"})
                    = <<<<"sendDiscoveryUniqueBranch", UID_MIN, UID_MAX>>>>
              /\ IsMute(discovery.log[3], discovery.log[2][3])
              /\ Len(SelectSeq(discovery.log,
                               LAMBDA e : \E uid \in Uids : IsMute(e, uid))) = 1
              /\ discovery.log[4][1] = "answer"
              /\ discovery.results =
                    <<[uid |-> discovery.log[2][3], muted |-> discovery.log[4][2]]>>
        /\ YieldsNone(discovery) =>
              /\ discovery.log = <<<<"sendDiscoveryUniqueBranch", UID_MIN, UID_MAX>>,
                                   <<"responses", 0, NoUid>>>>
              /\ discovery.results = <<>>

\* The device MaxUid alone answered and acknowledged its mute.
C24_Witness ==
    /\ discovery.pc = "returned"
    /\ discovery.muteFound
    /\ ~discovery.unmuteAtEnd
    /\ YieldsOne(discovery)
    /\ discovery.results = <<[uid |-> MaxUid, muted |-> TRUE]>>
    /\ Len(discovery.log) = 4

\* ------------------------------------------------- C25: unmuteAtEnd
IsUnMute(e, uid) ==
    \/ e = <<"sendUnMute", uid>>
    \/ e[1] = "send" /\ e[2] = "DISC_UN_MUTE" /\ e[3] = uid

\* The UIDs whose mute the transport acknowledged.
Acknowledged(d) ==
    {uid \in Uids : \E k \in 1..(Len(d.log) - 1) :
                        /\ IsMute(d.log[k], uid)
                        /\ d.log[k + 1] = <<"answer", TRUE>>}

UnMutesOf(d, uid) == {k \in 1..Len(d.log) : IsUnMute(d.log[k], uid)}

\* C25: an un-mute is requested only when unmuteAtEnd is set, only of a UID
\* whose mute was acknowledged, of each such UID at most once, by the
\* transport's sendUnMute when it has one and by an RDM request otherwise,
\* and no probe and no mute is requested after it; when a discovery with
\* unmuteAtEnd returns, every UID whose mute was acknowledged has had its
\* un-mute.
C25_UnmuteAtEnd ==
    LET d == discovery
    IN /\ \A uid \in Uids : \A k \in UnMutesOf(d, uid) :
             /\ d.unmuteAtEnd
             /\ uid \in Acknowledged(d)
             /\ UnMutesOf(d, uid) = {k}
             /\ d.log[k][1] = "sendUnMute" <=> d.sendUnMute
             /\ d.stack = <<>>
             /\ \A j \in (k + 1)..Len(d.log) :
                   /\ d.log[j][1] # "sendDiscoveryUniqueBranch"
                   /\ \A other \in Uids : ~IsMute(d.log[j], other)
       /\ (d.pc = "returned" /\ d.unmuteAtEnd) =>
             \A uid \in Acknowledged(d) : UnMutesOf(d, uid) # {}

\* Three devices were found, two acknowledged their mute, and exactly
\* those two were un-muted by RDM requests.
C25_Witness ==
    /\ discovery.pc = "returned"
    /\ discovery.unmuteAtEnd
    /\ ~discovery.sendUnMute
    /\ Len(discovery.results) = 3
    /\ Cardinality(Acknowledged(discovery)) = 2
    /\ \A uid \in Uids :
          Cardinality(UnMutesOf(discovery, uid))
              = IF uid \in Acknowledged(discovery) THEN 1 ELSE 0

\* ------------------------------------------------- C26: ArtDmx round trip
MaxData == 4          \* length of the short frames given to buildArtDmx

Ramp(n) == [k \in 1..n |-> k % 256]

ArtDmxOptionSets ==
    [universe : {1, 16, 17, 256, 257, ArtNetUniverseMax},
     sequence : {0, 11, 255},
     physical : {Undefined, 0, 2, 255},
     data : {Ramp(n) : n \in 0..MaxData}
                \cup {Ramp(ArtDmxMaxLength), Ramp(ArtDmxMaxLength + 1)},
     length : {Undefined, 0, 1, 2, 3, ArtDmxMaxLength, 600}]

SpecArtDmx ==
    /\ InitClient({DefaultConfig}, {<<>>})
    /\ InitController({DefaultOptions})
    /\ discovery = IdleDiscovery
    /\ InitArtNet(ArtDmxOptionSets)
    /\ InitSenderWith({0})
    /\ trace = <<>>
    /\ [][ArtNetNext]_vars

\* The payload length the options ask for, and byte k of that payload.
AskedLength(o) ==
    LET asked == IF o.length = Undefined THEN Len(o.data) ELSE o.length
    IN IF asked > 512 THEN 512 ELSE asked

AskedByte(o, k) == IF k <= Len(o.data) THEN o.data[k] ELSE 0

PayloadAtByte18(a) ==
    /\ Len(a.buffer) = 18 + AskedLength(a.options)
    /\ \A k \in 1..AskedLength(a.options) :
          a.buffer[18 + k] = AskedByte(a.options, k)

Reconstructs(a) ==
    /\ a.parsed.kind = "packet"
    /\ a.parsed.universe = a.options.universe
    /\ a.parsed.sequence = a.options.sequence
    /\ a.parsed.physical = (IF a.options.physical = Undefined THEN 0
                            ELSE a.options.physical)
    /\ a.parsed.length = AskedLength(a.options)
    /\ Len(a.parsed.data) = AskedLength(a.options)
    /\ \A k \in 1..AskedLength(a.options) :
          a.parsed.data[k] = AskedByte(a.options, k)

\* C26 as it is stated: every packet buildArtDmx makes has at byte 18 a
\* payload of length min(override or data.length, 512), and parseArtDmx of
\* it gives back the universe, sequence, physical and payload.
C26_EveryBuildParses ==
    /\ artnet.pc \in {"built", "parsed"} => PayloadAtByte18(artnet)
    /\ artnet.pc = "parsed" => Reconstructs(artnet)

\* C26, amended: the payload is at byte 18 for every packet built;
\* parseArtDmx gives back universe, sequence, physical and payload when the
\* payload length is 2 or more, and fails with a range error when it is 0
\* or 1.
C26_BuildParses ==
    /\ artnet.pc \in {"built", "parsed"} => PayloadAtByte18(artnet)
    /\ artnet.pc = "parsed" =>
          IF AskedLength(artnet.options) >= 2
          THEN Reconstructs(artnet)
          ELSE artnet.parsed = ArtDmxRangeError

\* Universe 32768 with a frame of 513 bytes and no override came back
\* with 512 bytes.
C26_Witness ==
    /\ artnet.pc = "parsed"
    /\ artnet.options.universe = ArtNetUniverseMax
    /\ artnet.options.length = Undefined
    /\ Len(artnet.options.data) = ArtDmxMaxLength + 1
    /\ artnet.parsed.kind = "packet"
    /\ artnet.parsed.universe = ArtNetUniverseMax
    /\ artnet.parsed.net = 127
    /\ artnet.parsed.length = 512
    /\ artnet.parsed.data[512] = 0

\* ------------------------------------------------- C27: order of resolution
\* A broker session and user waiters on one client; the peer sends broker
\* packets and packets of an unassigned vector, one or several to a chunk.
ResolvePackets == BrokerPackets \cup OtherPackets

NextResolve ==
    \/ Connect(1)
    \/ \E s \in SocketIds : SocketReady(s, TRUE)
    \/ \E autoBind \in BOOLEAN : StartBrokerSession(1, autoBind, FALSE, Controller, <<>>)
    \/ \E tag \in Tags : WaitForMessage(tag)
    \/ \E s \in SocketIds, packet \in ResolvePackets, more \in BOOLEAN :
            DataPacket(s, packet, more)
    \/ \E id \in WaiterIds : WaiterTimeout(id)

SpecResolve == InitWith({DefaultConfig}) /\ [][NextResolve]_vars

\* The ids of the waiters of ws that match packet, in the order of ws.
MatchingIds(ws, packet) ==
    LET ms == SelectSeq(ws, LAMBDA wt : Matches(wt, packet))
    IN [k \in 1..Len(ms) |-> ms[k].id]

\* A call that awaits a waiter has been handed its packet and has not yet
\* gone on.
ReplyUnread ==
    \/ \E i \in SessionIds : sessions[i].reply.st # "none"
    \/ \E t \in TxIds : transactions[t].reply.st # "none"

\* C27: the step that processes a packet resolves exactly the waiters that
\* match it, in the order they were registered, and leaves the others in
\* the table in their order; and when a further packet of the chunk is still
\* to be processed, every call that awaited a resolved waiter has gone on
\* with the packet.
C27_ResolvedBeforeNextPacket ==
    [][/\ \A m \in 1..Len(Messages(trace')) :
            \E packet \in ResolvePackets :
                /\ Messages(trace')[m]
                      = <<"message", packet.vector, packet.tag, packet.sequence>>
                /\ Settled(trace') = MatchingIds(waiters, packet)
                /\ LET kept == SelectSeq(waiters, LAMBDA wt : ~Matches(wt, packet))
                   IN /\ Len(waiters') >= Len(kept)
                      /\ SubSeq(waiters', 1, Len(kept)) = kept
       /\ chunk'.sock # 0 => ~ReplyUnread']_vars

\* ------------------------------------------------- C28: sequence counter
\* A client whose counter has reached one of SequenceStarts, and every
\* operation that allocates a sequence: a broker session, RDM transactions,
\* an endpoint advertisement, stopBrokerSession and heartbeats.
WrapConnectReply ==
    Packet("ConnectReply", <<Limb - 1, Limb - 2>>, StatusOk, 98, 0, NoRole, NoNum, 0)

SequencePackets ==
    {WrapConnectReply} \cup {pk \in HeartbeatPackets : pk.vector = "ConnectReply"}

NextSequence ==
    \/ Connect(1)
    \/ \E s \in SocketIds : SocketReady(s, TRUE)
    \/ StartBrokerSession(1, FALSE, FALSE, Controller, <<>>)
    \/ StopBrokerSession
    \/ \E t \in TxIds : RdmTransaction(t)
    \/ SendEndpointAdvertisement(DefaultEndpointId, Controller, <<256>>)
    \/ \E s \in SocketIds, packet \in SequencePackets : DataPacket(s, packet, FALSE)
    \/ \E id \in WaiterIds : WaiterTimeout(id)
    \/ HeartbeatTick

SpecSequence ==
    /\ InitClientAt({DefaultConfig}, {<<>>}, SequenceStarts)
    /\ InitController({DefaultOptions})
    /\ discovery = IdleDiscovery
    /\ InitArtNet({DefaultArtDmx})
    /\ InitSenderWith({0})
    /\ trace = <<>>
    /\ [][NextSequence]_vars

MaxU32 == <<Limb - 1, Limb - 1>>

\* The value after n in 1, 2, ..., 0xFFFFFFFF, 1, 2, ...
After(n) ==
    IF n = MaxU32 THEN <<0, 1>>
    ELSE IF n[2] = Limb - 1 THEN <<n[1] + 1, 0>>
    ELSE <<n[1], n[2] + 1>>

\* The sequences a step wrote into packets, in the order it wrote them.
Allocated(tr) ==
    LET es == SelectSeq(tr, LAMBDA e : e[1] = "write" /\ e[2] # "Root")
    IN [k \in 1..Len(es) |-> es[k][3]]

\* C28: whichever operation allocates, the k-th sequence a step writes into
\* a packet is the k-th value after the counter in 1, 2, ..., 0xFFFFFFFF,
\* 1, 2, ...; it is never 0, and the counter is left at the last value
\* allocated, which differs from the value before.
C28_SequenceSkipsZero ==
    [][/\ \A k \in 1..Len(Allocated(trace')) :
            /\ Allocated(trace')[k]
                  = After(IF k = 1 THEN rdmnetSequence ELSE Allocated(trace')[k - 1])
            /\ Allocated(trace')[k] # <<0, 0>>
       /\ rdmnetSequence' # <<0, 0>> \/ rdmnetSequence = <<0, 0>>
       /\ rdmnetSequence' # rdmnetSequence =>
            \/ rdmnetSequence' = After(rdmnetSequence)
            \/ rdmnetSequence' = After(After(rdmnetSequence))
       /\ Allocated(trace') # <<>> =>
            rdmnetSequence' \in {Allocated(trace')[Len(Allocated(trace'))],
                                 After(Allocated(trace')[Len(Allocated(trace'))])}]_vars

\* A session connected with sequence 0xFFFFFFFE; 0xFFFFFFFF was allocated
\* after it, and the transaction that came next was given 1.
C28_Witness ==
    /\ rdmnetSequence = <<0, 1>>
    /\ \E t \in TxIds : transactions[t].seq = <<0, 1>> /\ transactions[t].pc = "wait"
    /\ brokerState = Connected
    /\ Allocated(trace) = <<<<0, 1>>>>

\* ------------------------------------------------- C29: sACN sequence
RefreshRates == {0, 40}

SpecSender ==
    /\ InitClient({DefaultConfig}, {<<>>})
    /\ InitController({DefaultOptions})
    /\ discovery = IdleDiscovery
    /\ InitArtNet({DefaultArtDmx})
    /\ InitSenderWith(RefreshRates)
    /\ trace = <<>>
    /\ [][SenderNext]_vars

PacketsOf(tr) == SelectSeq(tr, LAMBDA e : e[1] = "packet")

ResendsOf(tr) == SelectSeq(tr, LAMBDA e : e[1] = "packet" /\ e[5] = "reSend")

\* Before the first send and after close() the refresh loop sends nothing.
C30_NoResendOutside ==
    [][ResendsOf(trace') # <<>> =>
          /\ sender.latestPacketOptions.set
          /\ sender.lastCall.sent
          /\ ~sender.closed]_vars

\* C30: every packet the refresh loop sends carries the DMX payload and the
\* options of the last send or sendRaw call as they were at that call, and
\* the loop sends nothing before the first call or after close().
C30_ResendRepeatsLastCall ==
    [][ResendsOf(trace') # <<>> =>
          /\ sender.lastCall.sent
          /\ ~sender.closed
          /\ ResendsOf(trace')[1][3] = sender.lastCall.dmx
          /\ ResendsOf(trace')[1][4] = sender.lastCall.priority]_vars

\* ------------------------------------------------- C31: depth-first halves
IsProbe(e) == e[1] = "sendDiscoveryUniqueBranch"

\* The probe log[k] asks for a range inside lower..upper.
ProbeWithin(d, k, lower, upper) ==
    /\ IsProbe(d.log[k])
    /\ d.log[k][2] >= lower
    /\ d.log[k][3] <= upper

\* The places of the log where a probe of more than one UID was answered
\* by more than one decodable UID of its range.
Splits(d) ==
    {k \in 1..(Len(d.log) - 1) :
        /\ IsProbe(d.log[k])
        /\ d.log[k][2] < d.log[k][3]
        /\ d.log[k + 1][1] = "responses"
        /\ d.log[k + 1][2] > 1}

\* The probes after the split at k that lie inside its upper half.
UpperProbes(d, k) ==
    LET mid == (d.log[k][2] + d.log[k][3]) \div 2
    IN {j \in (k + 2)..Len(d.log) : ProbeWithin(d, j, mid + 1, d.log[k][3])}

\* C31: after a probe of [lo, hi], lo < hi, is answered by more than one
\* decodable UID, the next request is the probe of [lo, mid], mid the
\* floor of (lo + hi) / 2, so lo <= mid < hi and [lo, mid], [mid + 1, hi]
\* partition [lo, hi]; the first later probe inside the upper half is the
\* probe of [mid + 1, hi] itself, no probe inside the lower half follows
\* it, every probe before it is inside the lower half, and a discovery that
\* returns has made it.
C31_DepthFirst ==
    LET d == discovery
    IN \A k \in Splits(d) :
          LET lo == d.log[k][2]
              hi == d.log[k][3]
              mid == (lo + hi) \div 2
              upper == UpperProbes(d, k)
          IN /\ lo <= mid /\ mid < hi
             /\ 2 * mid <= lo + hi /\ lo + hi < 2 * (mid + 1)
             /\ Len(d.log) >= k + 2 =>
                   d.log[k + 2] = <<"sendDiscoveryUniqueBranch", lo, mid>>
             /\ \A j \in upper :
                   /\ (\A i \in upper : j <= i) =>
                         /\ d.log[j] = <<"sendDiscoveryUniqueBranch", mid + 1, hi>>
                         /\ \A i \in (k + 2)..(j - 1) :
                               IsProbe(d.log[i]) => ProbeWithin(d, i, lo, mid)
                   /\ \A i \in (j + 1)..Len(d.log) : ~ProbeWithin(d, i, lo, mid)
             /\ d.pc = "returned" => upper # {}

\* The whole range and then its lower half answered with several UIDs:
\* both UIDs of the lower half were probed before the upper half was.
C31_Witness ==
    /\ discovery.pc = "returned"
    /\ Requests(discovery, {"sendDiscoveryUniqueBranch"})
          = <<<<"sendDiscoveryUniqueBranch", 0, 3>>,
              <<"sendDiscoveryUniqueBranch", 0, 1>>,
              <<"sendDiscoveryUniqueBranch", 0, 0>>,
              <<"sendDiscoveryUniqueBranch", 1, 1>>,
              <<"sendDiscoveryUniqueBranch", 2, 3>>>>
    /\ Splits(discovery) = {1, 3}

\* ------------------------------------------------- C38: discovery ends
\* The transport settles every request made of it: it answers (a probe
\* with its frames or with none on timeout) or rejects.
SpecDiscoveryFair ==
    /\ SpecDiscovery
    /\ WF_vars((\E responses \in ResponseLists : ProbeSettles(responses))
                  \/ TransportRejects)
    /\ WF_vars(\E ok \in BOOLEAN : MuteSettles(ok))
    /\ WF_vars(\E ok \in BOOLEAN : UnmuteSettles(ok))

Probes(d) == {k \in 1..Len(d.log) : IsProbe(d.log[k])}

\* C38: every probe but the first asks for a proper part of the range of
\* an earlier probe of the same discovery that was answered by more than
\* one decodable UID and spanned more than one UID, no range is probed
\* twice, and when the transport settles every request a discovery that
\* has begun returns or rejects, whatever the transport answers.
C38_Terminates ==
    /\ [](\A j \in Probes(discovery) :
             /\ j > 1 =>
                   \E k \in Splits(discovery) :
                       /\ k < j
                       /\ ProbeWithin(discovery, j, discovery.log[k][2],
                                      discovery.log[k][3])
                       /\ discovery.log[j][3] - discovery.log[j][2]
                              < discovery.log[k][3] - discovery.log[k][2]
             /\ \A i \in Probes(discovery) :
                   discovery.log[i] = discovery.log[j] => i = j)
    /\ (discovery.pc \in {"probe", "mute", "unmute"})
           ~> (discovery.pc \in {"returned", "rejected"})

\* Every probe of more than one UID was answered by several decodable
\* UIDs, every probe of one UID as well, and the discovery returned.
C38_Witness ==
    /\ discovery.pc = "returned"
    /\ Cardinality(Probes(discovery)) = 2 * (MaxUid + 1) - 1
    /\ \A k \in Probes(discovery) : discovery.log[k + 1][2] > 1

\* ------------------------------------------------- C39: every device once
NextDevices ==
    \/ \E muteFound \in BOOLEAN, unmuteAtEnd \in BOOLEAN,
          sendMute \in BOOLEAN, sendUnMute \in BOOLEAN :
            DiscoverDevices(muteFound, unmuteAtEnd, sendMute, sendUnMute)
    \/ DevicesAnswer
    \/ \E ok \in BOOLEAN : MuteSettles(ok)
    \/ \E ok \in BOOLEAN : UnmuteSettles(ok)
    \/ TransportRejects

SpecDevices ==
    /\ InitClient({DefaultConfig}, {<<>>})
    /\ InitController({DefaultOptions})
    /\ discovery \in {[IdleDiscovery EXCEPT !.devices = D] : D \in SUBSET Uids}
    /\ InitArtNet({DefaultArtDmx})
    /\ InitSenderWith({0})
    /\ trace = <<>>
    /\ [][NextDevices]_vars

\* The probe that was answered by the one UID uid.
FoundBy(d, uid) ==
    {k \in 1..(Len(d.log) - 1) :
        IsProbe(d.log[k]) /\ d.log[k + 1] = <<"responses", 1, uid>>}

\* C39: when the transport answers each probe with the frame of each
\* device of the probed range, a discovery that returns reports the UIDs
\* of exactly the devices, none twice, and each was the single UID of a
\* probe whose range held it.
C39_EveryDeviceOnce ==
    discovery.pc = "returned" =>
        /\ {discovery.results[k].uid : k \in 1..Len(discovery.results)}
              = discovery.devices
        /\ Len(discovery.results) = Cardinality(discovery.devices)
        /\ \A k \in 1..Len(discovery.results) :
              \E j \in FoundBy(discovery, discovery.results[k].uid) :
                  /\ discovery.log[j][2] <= discovery.results[k].uid
                  /\ discovery.results[k].uid <= discovery.log[j][3]

\* Every UID is a device and every one was reported.
C39_Witness ==
    /\ discovery.pc = "returned"
    /\ discovery.devices = Uids
    /\ Len(discovery.results) = MaxUid + 1

\* ------------------------------------------------- C32: broker client id
\* C32: getBrokerClientId() is non-null whenever the broker state is
\* Connected, Binding or Bound, and null whenever it is Disconnected or
\* TcpConnected.
C32_ClientIdFollowsState ==
    /\ brokerState \in {Connected, Binding, Bound} => brokerClientId # NoNum
    /\ brokerState \in {Disconnected, TcpConnected} => brokerClientId = NoNum

\* The half of it that is about the states without a session.
C32_NoIdWithoutSession ==
    brokerState \in {Disconnected, TcpConnected} => brokerClientId = NoNum

\* ------------------------------------------------- C33: failed session
\* The errors startBrokerSession i threw in the step, but for its refusal
\* to start from the state it found.
Failures(tr, i) ==
    SelectSeq(tr, LAMBDA e : /\ e[1] = "sessionThrow"
                             /\ e[2] = i
                             /\ e[3] # PlainError("Cannot start broker session"))

\* C33: when startBrokerSession fails, for a rejection by the broker, a
\* negotiation mismatch, a reply that timed out or a request that could
\* not be sent, the broker state after the step is Error, TcpConnected or
\* Disconnected.
C33_FailureLeavesStartable ==
    [][\A i \in SessionIds :
          Failures(trace', i) # <<>> =>
              brokerState' \in {ErrorState, TcpConnected, Disconnected}]_vars

\* The same for the failures the broker's reply decides: a status other
\* than Ok and a negotiation mismatch.
C33_RejectionLeavesError ==
    [][\A i \in SessionIds :
          (/\ Failures(trace', i) # <<>>
           /\ Failures(trace', i)[1][3].domain \in {"broker", "negotiation"})
              => brokerState' = ErrorState]_vars

\* ------------------------------------------------- C34: connect() settles
\* A socket does not stay for ever without its 'connect' or 'error' event,
\* and the postConnectAuth hook does not stay pending for ever.
EventsArrive ==
    \A s \in SocketIds : []<>(sockets[s].st # "connecting" /\ ~sockets[s].hook)

\* Every connect() call that waits for an attempt settles, when the events
\* of the sockets arrive.
C34_ConnectSettles ==
    EventsArrive =>
        \A c \in CallerIds : (callers[c] = "waiting") ~> (callers[c] = "idle")

\* C34, its second half: a connect() call whose attempt was given up
\* before the socket became ready (disconnect() during the attempt) is
\* rejected, so a connect() call that resolves after its call does so on a
\* client whose socket is open.
C34_DroppedAttemptRejects ==
    [][(/\ ~Called(trace', "connect")
        /\ \E k \in 1..Len(trace') :
              /\ trace'[k][1] = "connectReturn"
              /\ trace'[k][3])
          => /\ socket' # 0
             /\ sockets'[socket'].st = "open"]_vars

\* ------------------------------------------------- C35: stale socket
\* The sockets whose 'close' handler ran in the step.
ClosedIn(tr) == {tr[k][2] : k \in {j \in 1..Len(tr) : tr[j][1] = "disconnect"}}

\* C35: the 'close' (or 'error' and 'close') of a socket that is not the
\* client's current socket leaves the current socket handle, its heartbeat,
\* the waiters, the broker state, the capability cache and the reconnect
\* timer as they were.
C35_StaleEventsIgnored ==
    [][\A s \in ClosedIn(trace') :
          (socket # 0 /\ socket # s) =>
              /\ socket' = socket
              /\ heartbeatTimer' = heartbeatTimer
              /\ waiters' = waiters
              /\ brokerState' = brokerState
              /\ endpointCapabilities' = endpointCapabilities
              /\ reconnectTimer' = reconnectTimer]_vars


\* --------------------------------------- C36: a sent universe is clean
FlushThrows(tr) == SelectSeq(tr, LAMBDA e : e[1] = "flushThrow")

\* C36: when a flush() that no other call of the controller crossed
\* returns, forced or not, the dirty flag of every universe it passed to
\* sendRaw is clear.
C36_SentUniverseClean ==
    [][\A k \in 1..Len(FlushReturns(trace')) :
          LET e == FlushReturns(trace')[k]
              sent == e[6]
              alone == e[7]
          IN alone => \A n \in 1..Len(sent) : ~IsDirty(universes', sent[n])]_vars

\* What holds of a forced flush: it leaves every flag as it found it.
C36_ForcedFlushKeepsFlags ==
    [][\A k \in 1..Len(FlushReturns(trace')) :
          LET e == FlushReturns(trace')[k]
              force == e[4]
              dirtyAtCall == e[5]
              alone == e[7]
          IN (force /\ alone) => DirtyIds(ControllerState') = dirtyAtCall]_vars

\* ------------------------------- C37: a failed universe stays dirty
\* C37: when sendRaw rejects in a flush() that no other call of the
\* controller crossed, the universe whose sendRaw rejected is dirty if it
\* was dirty when flush was called, and so is every universe the flush had
\* not reached.
C37_FailedStaysDirty ==
    [][\A k \in 1..Len(FlushThrows(trace')) :
          LET e == FlushThrows(trace')[k]
              target == e[3]
              dirtyAtCall == e[5]
              sent == e[6]
              alone == e[7]
              synced == e[8]
              reached == {sent[n] : n \in 1..Len(sent)}
          IN (alone /\ synced = <<>>) =>
                /\ sent[Len(sent)] \in dirtyAtCall =>
                       IsDirty(universes', sent[Len(sent)])
                /\ target = AllUniverses =>
                       \A u \in dirtyAtCall \ reached : IsDirty(universes', u)]_vars

\* What holds: the universes the failed flush had not reached keep their
\* flag, and the one whose sendRaw rejected keeps it only under force.
C37_UnreachedStayDirty ==
    [][\A k \in 1..Len(FlushThrows(trace')) :
          LET e == FlushThrows(trace')[k]
              target == e[3]
              force == e[4]
              dirtyAtCall == e[5]
              sent == e[6]
              alone == e[7]
              synced == e[8]
              reached == {sent[n] : n \in 1..Len(sent)}
          IN (alone /\ synced = <<>>) =>
                /\ (force /\ sent[Len(sent)] \in dirtyAtCall) =>
                       IsDirty(universes', sent[Len(sent)])
                /\ (~force /\ sent[Len(sent)] \in dirtyAtCall) =>
                       ~IsDirty(universes', sent[Len(sent)])
                /\ target = AllUniverses =>
                       \A u \in dirtyAtCall \ reached : IsDirty(universes', u)]_vars

====
